---- MODULE Spec2Model ----
(***************************************************************************)
(* Region manifest of greptimedb: the append-only log of region metadata   *)
(* action lists, its checkpointer (RegionManifestCheckpointer) and the     *)
(* flushed manifest version that bounds what a checkpoint may fold.        *)
(*                                                                         *)
(* src/src/storage/src/manifest/region.rs holds the checkpointer and the   *)
(* tests of the manifest.  ManifestImpl (update, scan, last_version,       *)
(* last_checkpoint, save_checkpoint, the log store) and                    *)
(* RegionManifestDataBuilder live in files that are not part of src/; they *)
(* are modelled from the specification and from what the tests of         *)
(* region.rs observe of them.                                              *)
(***************************************************************************)
EXTENDS Integers, Sequences, FiniteSets, TLC

(***************************************************************************)
(* Bounds of the model.                                                    *)
(***************************************************************************)
\* number of action lists the appender may commit in one behaviour
MaxUpdates == 3

(***************************************************************************)
(* Program constants.                                                      *)
(***************************************************************************)
\* first manifest version: the tests see the first update at version 0
MIN_VERSION == 0
\* upper end of a full scan (u64::MAX in the program; only its being above
\* every allocated version matters, so the largest TLC integer stands for it)
MAX_VERSION == 2147483647

(***************************************************************************)
(* Values: file ids, region metadata, sequence numbers, protocols.         *)
(***************************************************************************)
FileIds == {"f1", "f2"}
\* RawRegionMetadata::default() is 0, build_region_meta() 1 and
\* build_altered_region_meta() 2
DefaultMetadata == 0
\* ProtocolAction::default()
DefaultProtocol == 0

(***************************************************************************)
(* RegionMetaAction: Protocol | Change | Edit | Remove.  One record shape  *)
(* for the four variants; the fields a variant lacks hold a filler.        *)
(***************************************************************************)
Change(meta, seq) ==
    [kind |-> "Change", metadata |-> meta, committed_sequence |-> seq,
     files_to_add |-> {}, files_to_remove |-> {}, flushed_sequence |-> 0,
     protocol |-> 0]

Edit(seq, add, remove) ==
    [kind |-> "Edit", metadata |-> 0, committed_sequence |-> 0,
     files_to_add |-> add, files_to_remove |-> remove, flushed_sequence |-> seq,
     protocol |-> 0]

Protocol(p) ==
    [kind |-> "Protocol", metadata |-> 0, committed_sequence |-> 0,
     files_to_add |-> {}, files_to_remove |-> {}, flushed_sequence |-> 0,
     protocol |-> p]

Remove ==
    [kind |-> "Remove", metadata |-> 0, committed_sequence |-> 0,
     files_to_add |-> {}, files_to_remove |-> {}, flushed_sequence |-> 0,
     protocol |-> 0]

\* The action lists a caller of update submits.  They follow the lists of
\* test_region_manifest_checkpoint: a Change, an Edit that adds a file, a
\* list of two Edits of which the second removes what the first added, a
\* second Change with other metadata; and the two variants the tests leave
\* out, a Protocol (here at the head of the second Change) and a Remove.
ActionLists ==
    { <<Change(1, 1)>>,
      <<Protocol(1), Change(2, 2)>>,
      <<Edit(1, {"f1"}, {})>>,
      <<Edit(1, {"f1"}, {}), Edit(2, {"f2"}, {"f1"})>>,
      <<Remove>> }

\* A region is created with a single initial Change: the first list of
\* test_region_manifest and of test_region_manifest_checkpoint
InitialActionLists == { <<Change(1, 1)>> }

(***************************************************************************)
(* RegionManifestData and its builder.                                     *)
(***************************************************************************)
\* Option<RegionVersion>: some = FALSE is None
NoRegionVersion ==
    [some |-> FALSE, manifest_version |-> 0, flushed_sequence |-> 0, files |-> {}]

\* RegionManifestDataBuilder::default()
DefaultBuilder ==
    [committed_sequence |-> 0, metadata |-> DefaultMetadata, version |-> NoRegionVersion]

\* RegionManifestDataBuilder::apply_change: replace metadata and committed sequence
apply_change(builder, c) ==
    [builder EXCEPT !.metadata = c.metadata,
                    !.committed_sequence = c.committed_sequence]

\* RegionManifestDataBuilder::apply_edit: add files, remove files, update the
\* flushed sequence, set region_version.manifest_version to the version of the
\* action list under the iterator
apply_edit(builder, manifest_version, e) ==
    [builder EXCEPT !.version =
        [some |-> TRUE,
         manifest_version |-> manifest_version,
         flushed_sequence |-> e.flushed_sequence,
         files |-> (builder.version.files \cup e.files_to_add) \ e.files_to_remove]]

\* Option<RegionCheckpoint>: some = FALSE is None
NoCheckpoint ==
    [some |-> FALSE, protocol |-> DefaultProtocol, last_version |-> 0,
     compacted_actions |-> 0, checkpoint |-> DefaultBuilder]

(***************************************************************************)
(* The table of src/src/mito/src/table.rs: TableInfo, the alter kinds, the *)
(* regions' metadata, the actions of the table manifest.                   *)
(***************************************************************************)
\* bound: the alter calls that may begin in one behaviour
MaxAlters == 3

\* the tasks that call MitoTable::alter
Procs == {"a1", "a2"}

\* the region numbers of the table (MitoTable.regions)
Regions == {1, 2}

\* TableInfo: name, ident.version, the columns of meta.schema and
\* meta.next_column_id; some = FALSE where no TableInfo is
TableInfo(name, table_version, columns, next_column_id) ==
    [some |-> TRUE, name |-> name, version |-> table_version,
     columns |-> columns, next_column_id |-> next_column_id]

NoTableInfo ==
    [some |-> FALSE, name |-> "", version |-> 0, columns |-> {}, next_column_id |-> 0]

\* the TableInfo handed to MitoTable::create
InitialTableInfo == TableInfo("t1", 0, {"c0"}, 1)

\* AlterKind: AddColumns, DropColumns, RenameTable
AddColumns(column) == [kind |-> "AddColumns", column |-> column, new_table_name |-> ""]
DropColumns(column) == [kind |-> "DropColumns", column |-> column, new_table_name |-> ""]
RenameTable(name) == [kind |-> "RenameTable", column |-> "", new_table_name |-> name]

AlterKinds == {AddColumns("c1"), DropColumns("c1"), RenameTable("t2")}

\* Option<AlterOperation>: some = FALSE is None
NoAlterOperation == [some |-> FALSE, kind |-> "", column |-> ""]

\* the metadata of a region created with the table; applied is the history
\* of the region, the operations Region::alter has applied to it, in order
InitialRegionMetadata == [version |-> 0, columns |-> {"c0"}, applied |-> <<>>]

\* TableMetaAction: Protocol | Change(TableChange { table_info })
TableChange(info) == [kind |-> "Change", table_info |-> info]

TableProtocol == [kind |-> "Protocol", table_info |-> NoTableInfo]

\* a task outside alter: no locals; ret is the result of its last call
\* ("ok", or the error), manifest_version the version its update got, or
\* would have got had it not failed
NotAltering ==
    [pc |-> "idle", ret |-> "not_called", kind |-> RenameTable(""),
     table_info |-> NoTableInfo, new_info |-> NoTableInfo,
     alter_op |-> NoAlterOperation, todo |-> {}, manifest_version |-> 0]

AlterReturned(ret, manifest_version) ==
    [NotAltering EXCEPT !.ret = ret, !.manifest_version = manifest_version]

\* a task whose call failed in alter_regions or in the manifest update: the
\* caller still holds the request (kind) it may send again, and the table
\* info the call had read tells which state of the table it was sent to
AlterFailed(locals, ret, manifest_version) ==
    [AlterReturned(ret, manifest_version) EXCEPT
        !.kind = locals.kind, !.table_info = locals.table_info]

(***************************************************************************)
(* TableOptions and its string-map encoding (table/src/requests.rs).  A    *)
(* String value is the sequence of its characters, so that formatting and  *)
(* parsing are computed; the keys of the map are left as strings, no       *)
(* conversion reads inside them.                                           *)
(***************************************************************************)
WRITE_BUFFER_SIZE_KEY == "write_buffer_size"
TTL_KEY == "ttl"
REGIONS_KEY == "regions"
COMPACTION_TIME_WINDOW_KEY == "compaction_time_window"

\* Option<ReadableSize> and Option<i64>: some = FALSE is None
NoNumber == [some |-> FALSE, value |-> 0]
SomeNumber(n) == [some |-> TRUE, value |-> n]

\* std::time::Duration, and Option<Duration>
Duration(secs, nanos) == [secs |-> secs, nanos |-> nanos]
NoDuration == [some |-> FALSE, value |-> Duration(0, 0)]
SomeDuration(d) == [some |-> TRUE, value |-> d]

\* line 92: TableOptions::default()
DefaultTableOptions ==
    [write_buffer_size |-> NoNumber, ttl |-> NoDuration,
     extra_options |-> <<>>, compaction_time_window |-> NoNumber]

KIB == 1024
MIB == 1048576

\* the ReadableSize values tried: 512 bytes, 1.5 MiB, 128 MiB (the size of
\* the test, line 316)
WriteBufferSizes == {NoNumber, SomeNumber(512), SomeNumber(1572864), SomeNumber(128 * MIB)}

\* the ttl values tried: none, zero, a millisecond and a half, 1000 seconds
\* (the ttl of the test, line 317), a day and an hour
Ttls ==
    {NoDuration, SomeDuration(Duration(0, 0)), SomeDuration(Duration(0, 1500000)),
     SomeDuration(Duration(1000, 0)), SomeDuration(Duration(90000, 0))}

\* the compaction time windows tried; 1677652502 is the one of the test
CompactionTimeWindows == {NoNumber, SomeNumber(0), SomeNumber(-15), SomeNumber(1677652502)}

\* the keys and the values of the extra options tried: a key of the
\* engine's own and the four keys of lines 83-86, which nothing keeps out
\* of extra_options
ExtraKeys == {"a", REGIONS_KEY, TTL_KEY, COMPACTION_TIME_WINDOW_KEY, WRITE_BUFFER_SIZE_KEY}
ExtraValues == {<<"A">>, <<"1", "h">>, <<"7">>}
MaxExtraOptions == 1

ExtraOptions ==
    UNION {[ks -> ExtraValues] : ks \in {s \in SUBSET ExtraKeys : Cardinality(s) <= MaxExtraOptions}}

TableOptionsValues ==
    [write_buffer_size : WriteBufferSizes, ttl : Ttls,
     extra_options : ExtraOptions, compaction_time_window : CompactionTimeWindows]

\* the map not yet made, the conversion not yet done
NoMap == [some |-> FALSE, map |-> <<>>]
NotConverted == [done |-> FALSE, ok |-> FALSE, options |-> DefaultTableOptions, key |-> ""]

(***************************************************************************)
(* The PromQL planner (promql/src/planner.rs): the tables the provider     *)
(* resolves, the expressions of the AST and the statements planned.  A     *)
(* column name is the sequence of the pieces it is written with, so that   *)
(* the names the planner derives from expressions (display_name) are       *)
(* computed: field_0 is <<"field_0">>.                                     *)
(***************************************************************************)
METRIC_NAME == "__name__"
FIELD_COLUMN_MATCHER == "__field__"
LEFT_PLAN_JOIN_ALIAS == "lhs"
SPECIAL_TIME_FUNCTION == "time"
DEFAULT_FIELD_COLUMN == "value"

\* the tables of the tests (build_test_table_provider, lines 1229-1283):
\* tag columns, the time index, field columns, in the order of the schema
Tables ==
    (<<"some_metric">> :>
        [tags |-> << <<"tag_0">>, <<"tag_1">> >>,
         time_index |-> <<"timestamp">>,
         fields |-> << <<"field_0">>, <<"field_1">> >>])
    @@ (<<"up">> :>
        [tags |-> << <<"tag_0">> >>,
         time_index |-> <<"timestamp">>,
         fields |-> << <<"field_0">> >>])

\* Option<String>, Option<Millisecond>, Option<Vec<Matcher>>
NoName == [some |-> FALSE, value |-> <<>>]
SomeName(n) == [some |-> TRUE, value |-> n]
NoMillisecond == [some |-> FALSE, value |-> 0]
SomeMillisecond(ms) == [some |-> TRUE, value |-> ms]
NoMatchers == [some |-> FALSE, value |-> <<>>]
SomeMatchers(ms) == [some |-> TRUE, value |-> ms]

\* promql_parser::label::Matcher; the value is written as the sequence of
\* the alternatives of a regex, one alternative for a plain value:
\* <<"field_0", "field_1">> is field_0|field_1, <<"bar">> is bar
Matcher(op, name, value) == [op |-> op, name |-> name, value |-> value]

\* Regex::is_match(col) of the regex of a Re or NotRe matcher
IsMatch(regex, col) == \E i \in 1..Len(regex) : <<regex[i]>> = col

\* Option<Offset>
NoOffset == [kind |-> "None", duration |-> 0]
Pos(duration) == [kind |-> "Pos", duration |-> duration]
Neg(duration) == [kind |-> "Neg", duration |-> duration]

\* the expressions of promql_parser::parser::Expr the planner translates
VectorSelector(matchers, offset) ==
    [type |-> "VectorSelector", matchers |-> matchers, offset |-> offset]
MatrixSelector(vector_selector, range) ==
    [type |-> "MatrixSelector", vector_selector |-> vector_selector, range |-> range]
NumberLiteral(val) == [type |-> "NumberLiteral", val |-> val]
Unary(expr) == [type |-> "Unary", expr |-> expr]
Paren(expr) == [type |-> "Paren", expr |-> expr]
Binary(lhs, op, return_bool, rhs) ==
    [type |-> "Binary", lhs |-> lhs, op |-> op, return_bool |-> return_bool, rhs |-> rhs]
Call(func, args) == [type |-> "Call", func |-> func, args |-> args]
Aggregate(op, modifier, expr) ==
    [type |-> "Aggregate", op |-> op, modifier |-> modifier, expr |-> expr]

\* Option<LabelModifier>; labels in the order the AST yields them
NoModifier == [kind |-> "None", labels |-> <<>>]
Include(labels) == [kind |-> "Include", labels |-> labels]
Exclude(labels) == [kind |-> "Exclude", labels |-> labels]

\* EvalStmt: the expression and the evaluation window, in milliseconds
EvalStmt(expr, start, end, interval, lookback_delta) ==
    [some |-> TRUE, expr |-> expr, start |-> start, end |-> end,
     interval |-> interval, lookback_delta |-> lookback_delta]

NoStmt == [some |-> FALSE, expr |-> NumberLiteral(1), start |-> 0, end |-> 0,
           interval |-> 0, lookback_delta |-> 0]

VARIABLES
    logs,                      \* the log objects of the store: version -> action list
    committed,                 \* every action list ever appended, committed[v + 1] at version v
    version,                   \* the manifest's version counter: the next version to allocate
    flushed_manifest_version,  \* RegionManifestCheckpointer.flushed_manifest_version
    checkpoints,               \* the checkpoint objects of the store: last_version -> checkpoint
    last_checkpoint,           \* the latest published checkpoint (NoCheckpoint: none)
    ck                         \* the checkpoint task: position in do_checkpoint and its locals

\* the region manifest and its checkpointer
region_vars == <<logs, committed, version, flushed_manifest_version, checkpoints,
                 last_checkpoint, ck>>

VARIABLES
    table_info,                \* MitoTable.table_info, the ArcSwap cell (NoTableInfo: no table yet)
    create_ret,                \* the result of MitoTable::create
    region_meta,               \* region number -> in_memory_metadata() of the region
    table_logs,                \* the log objects of the table manifest: version -> action list
    table_manifest_version,    \* the version counter of the table manifest
    alter_lock,                \* MitoTable.alter_lock: the task that holds it, or "free"
    alter,                     \* task -> its position in alter and its locals
    alters_begun,              \* the alter calls begun so far
    recovered                  \* the result of the last recover_table_info

\* the table, its regions and its manifest
table_vars == <<table_info, create_ret, region_meta, table_logs, table_manifest_version,
                alter_lock, alter, alters_begun, recovered>>

VARIABLES
    options,                   \* the TableOptions value that is converted
    serialized_map,            \* HashMap::from(&options), once made
    serialized                 \* TableOptions::try_from(&serialized_map), once done

\* the table options and their string-map encoding
options_vars == <<options, serialized_map, serialized>>

VARIABLES
    stmt,                      \* the EvalStmt given to the planner
    plans                      \* the results of the stmt_to_plan calls on stmt, in order

\* the PromQL planner
planner_vars == <<stmt, plans>>

vars == <<logs, committed, version, flushed_manifest_version, checkpoints,
          last_checkpoint, ck,
          table_info, create_ret, region_meta, table_logs, table_manifest_version,
          alter_lock, alter, alters_begun, recovered,
          options, serialized_map, serialized, stmt, plans>>

(***************************************************************************)
(* The manifest (ManifestImpl) as the checkpointer and the tests use it.   *)
(***************************************************************************)
\* Manifest::last_version: the cursor of the highest committed version
\* (MIN_VERSION while nothing is committed; the counter is unsigned)
LastVersion == IF version = MIN_VERSION THEN MIN_VERSION ELSE version - 1

\* the versions in a set, ascending
RECURSIVE Ascending(_)
Ascending(S) ==
    IF S = {} THEN <<>>
    ELSE LET m == CHOOSE x \in S : \A y \in S : x <= y
         IN  <<m>> \o Ascending(S \ {m})

\* Manifest::scan(start, end) drained with next_action: the (version, action
\* list) pairs of the log objects with start <= version < end, ascending
Scan(start, end) ==
    LET vs == Ascending({v \in DOMAIN logs : start <= v /\ v < end})
    IN  [i \in 1..Len(vs) |-> <<vs[i], logs[vs[i]]>>]

\* the protocol is put at the head of every list
StoredWithProtocol(v, action_list) == <<Protocol(DefaultProtocol)>> \o action_list

\* the action list as update stores it: the protocol is put at the head of
\* the list of the first version
Stored(v, action_list) ==
    IF v = MIN_VERSION THEN <<Protocol(DefaultProtocol)>> \o action_list
    ELSE action_list

(***************************************************************************)
(* do_checkpoint, lines 56-140, in the steps its awaits cut it into.       *)
(***************************************************************************)
\* the task before its first call of do_checkpoint: no locals, no result
NotStarted ==
    [pc |-> "idle", ret |-> "not_called",
     start_version |-> 0, end_version |-> 0,
     current_version |-> 0, flushed |-> 0,
     protocol |-> DefaultProtocol, manifest_builder |-> DefaultBuilder,
     last_version |-> 0, compacted_actions |-> 0,
     delete_failed |-> FALSE]

\* the task after a call has returned: the locals are dropped, the result
\* stays in ret ("none" is Ok(None), "some" Ok(Some(checkpoint)), the
\* checkpoint being the published one, "ManifestCheckpoint" the error of
\* lines 95-98 and "err" the error of save_checkpoint); start_version and
\* delete_failed are what the log lines 127-137 report of the call
Returned(ret, start_version, delete_failed) ==
    [NotStarted EXCEPT !.ret = ret, !.start_version = start_version,
                       !.delete_failed = delete_failed]

\* a slip in line 66: the range restarts at the checkpoint's own last version
StartVersionOffByOne(checkpoint) ==
    IF checkpoint.some THEN checkpoint.last_version ELSE MIN_VERSION

\* lines 63-76: (start_version, protocol, manifest_builder) from the last checkpoint
StartVersion(checkpoint) ==
    IF checkpoint.some THEN checkpoint.last_version + 1 ELSE MIN_VERSION

StartProtocol(checkpoint) ==
    IF checkpoint.some THEN checkpoint.protocol ELSE DefaultProtocol

\* a slip in line 68: the builder starts empty whatever the last checkpoint
StartBuilderEmpty(checkpoint) == DefaultBuilder

\* line 68: RegionManifestDataBuilder::with_checkpoint(checkpoint.checkpoint),
\* line 74: RegionManifestDataBuilder::default()
StartBuilder(checkpoint) ==
    IF checkpoint.some THEN checkpoint.checkpoint ELSE DefaultBuilder

Min(a, b) == IF a <= b THEN a ELSE b

\* a slip in line 79: the flushed manifest version is not consulted
EndVersionIgnoresFlushed(current_version, flushed) == current_version + 1

\* a slip in line 79: max in place of min
EndVersionMax(current_version, flushed) ==
    (IF current_version >= flushed THEN current_version ELSE flushed) + 1

\* lines 78-79
EndVersion(current_version, flushed) == Min(current_version, flushed) + 1

\* a slip in line 92: apply_edit is given last_version, the version of the
\* action list folded before, in place of the iterator's version
ApplyActionStaleVersion(st, v, action) ==
    IF st.failed THEN st
    ELSE IF action.kind = "Change"
         THEN [st EXCEPT !.manifest_builder = apply_change(st.manifest_builder, action)]
    ELSE IF action.kind = "Edit"
         THEN [st EXCEPT !.manifest_builder =
                            apply_edit(st.manifest_builder, st.last_version, action)]
    ELSE IF action.kind = "Protocol"
         THEN [st EXCEPT !.protocol = action.protocol]
    ELSE [st EXCEPT !.failed = TRUE]

\* a slip in lines 94-99: an action that is not Change, Edit or Protocol is
\* skipped
ApplyActionSkipsOther(st, v, action) ==
    IF action.kind = "Change"
         THEN [st EXCEPT !.manifest_builder = apply_change(st.manifest_builder, action)]
    ELSE IF action.kind = "Edit"
         THEN [st EXCEPT !.manifest_builder = apply_edit(st.manifest_builder, v, action)]
    ELSE IF action.kind = "Protocol"
         THEN [st EXCEPT !.protocol = action.protocol]
    ELSE st

\* lines 90-100: one action of an action list applied to the fold state
\* st = [manifest_builder, protocol, failed, last_version, compacted_actions]
ApplyAction(st, v, action) ==
    IF st.failed THEN st
    ELSE IF action.kind = "Change"
         THEN [st EXCEPT !.manifest_builder = apply_change(st.manifest_builder, action)]
    ELSE IF action.kind = "Edit"
         THEN [st EXCEPT !.manifest_builder = apply_edit(st.manifest_builder, v, action)]
    ELSE IF action.kind = "Protocol"
         THEN [st EXCEPT !.protocol = action.protocol]
    ELSE [st EXCEPT !.failed = TRUE]

\* a slip in line 89: only the first action of an action list is applied
ApplyActionsFirstOnly(st, v, actions) ==
    IF actions = <<>> THEN st ELSE ApplyAction(st, v, Head(actions))

\* line 89: for action in action_list.actions
RECURSIVE ApplyActions(_, _, _)
ApplyActions(st, v, actions) ==
    IF actions = <<>> THEN st
    ELSE ApplyActions(ApplyAction(st, v, Head(actions)), v, Tail(actions))

\* a slip in line 103: the actions of the list are counted, not the list
CountActions(compacted_actions, actions) == compacted_actions + Len(actions)

\* line 103: compacted_actions += 1, once per action list
CountList(compacted_actions, actions) == compacted_actions + 1

\* lines 86-104: the while loop over the iterator; the fold state gains
\* last_version and compacted_actions
RECURSIVE FoldScan(_, _)
FoldScan(st, entries) ==
    IF entries = <<>> \/ st.failed THEN st
    ELSE LET v    == Head(entries)[1]
             acts == Head(entries)[2]
             a    == ApplyActions(st, v, acts)
         IN  IF a.failed THEN a
             ELSE FoldScan([a EXCEPT !.last_version = v,
                                     !.compacted_actions = CountList(st.compacted_actions, acts)],
                           Tail(entries))

\* a slip in line 121: the range ends one version too far
DeleteRangeTooFar(start_version, last_version) ==
    {v \in DOMAIN logs : start_version <= v /\ v < last_version + 2}

\* a slip in line 121: the range starts one version too late
DeleteRangeTooLate(start_version, last_version) ==
    {v \in DOMAIN logs : start_version + 1 <= v /\ v < last_version + 1}

\* lines 119-122: the range of log objects delete is asked to remove
DeleteRange(start_version, last_version) ==
    {v \in DOMAIN logs : start_version <= v /\ v < last_version + 1}

(***************************************************************************)
(* Initial state: RegionManifest::with_checkpointer on an empty directory, *)
(* lines 148-163.                                                          *)
(***************************************************************************)
InitRegionAndTable ==
    /\ logs = <<>>
    /\ committed = <<>>
    /\ version = MIN_VERSION
    /\ flushed_manifest_version = 0
    /\ checkpoints = <<>>
    /\ last_checkpoint = NoCheckpoint
    /\ ck = NotStarted
    /\ table_info = NoTableInfo
    /\ create_ret = "not_called"
    /\ region_meta = [r \in Regions |-> InitialRegionMetadata]
    /\ table_logs = <<>>
    /\ table_manifest_version = MIN_VERSION
    /\ alter_lock = "free"
    /\ alter = [p \in Procs |-> NotAltering]
    /\ alters_begun = 0
    /\ recovered = NoTableInfo

\* no table options are being converted
InitOptions ==
    /\ options = DefaultTableOptions
    /\ serialized_map = NoMap
    /\ serialized = NotConverted

\* no statement is being planned
InitPlanner ==
    /\ stmt = NoStmt
    /\ plans = <<>>

Init ==
    /\ InitRegionAndTable
    /\ InitOptions
    /\ InitPlanner

(***************************************************************************)
(* Manifest::update(action_list): allocate the next version and persist    *)
(* the action list under it.  The first list is the region's initial       *)
(* Change.                                                                 *)
(***************************************************************************)
Submitted == IF version = MIN_VERSION THEN InitialActionLists ELSE ActionLists

Update(action_list) ==
    /\ version < MIN_VERSION + MaxUpdates
    /\ action_list \in Submitted
    /\ logs' = (version :> Stored(version, action_list)) @@ logs
    /\ committed' = Append(committed, Stored(version, action_list))
    /\ version' = version + 1
    /\ UNCHANGED <<flushed_manifest_version, checkpoints, last_checkpoint, ck>>
    /\ UNCHANGED <<table_vars, options_vars, planner_vars>>

(***************************************************************************)
(* RegionManifest::set_flushed_manifest_version, lines 45-48 and 166-175:  *)
(* a plain store of the argument.                                          *)
(***************************************************************************)
StoreFlushed(current, manifest_version) == manifest_version

SetFlushedManifestVersion(manifest_version) ==
    /\ flushed_manifest_version' = StoreFlushed(flushed_manifest_version, manifest_version)
    /\ UNCHANGED <<logs, committed, version, checkpoints, last_checkpoint, ck>>
    /\ UNCHANGED <<table_vars, options_vars, planner_vars>>

(***************************************************************************)
(* do_checkpoint, lines 60-82: read the last checkpoint, the current       *)
(* version and the flushed manifest version; return None when the range is *)
(* empty.                                                                  *)
(***************************************************************************)
CkBegin ==
    /\ ck.pc = "idle"
    /\ LET start_version == StartVersion(last_checkpoint)
           end_version   == EndVersion(LastVersion, flushed_manifest_version)
       IN  ck' = IF start_version >= end_version
                 THEN Returned("none", start_version, FALSE)
                 ELSE [NotStarted EXCEPT
                         !.pc = "scan", !.ret = "running",
                         !.start_version = start_version,
                         !.end_version = end_version,
                         !.current_version = LastVersion,
                         !.flushed = flushed_manifest_version,
                         !.protocol = StartProtocol(last_checkpoint),
                         !.manifest_builder = StartBuilder(last_checkpoint)]
    /\ UNCHANGED <<logs, committed, version, flushed_manifest_version,
                   checkpoints, last_checkpoint>>
    /\ UNCHANGED <<table_vars, options_vars, planner_vars>>

(***************************************************************************)
(* do_checkpoint, lines 84-116: scan [start_version, end_version), fold    *)
(* every action list into the builder, fail on an action that is not       *)
(* Change, Edit or Protocol, return None when nothing was folded, build    *)
(* the checkpoint.                                                         *)
(***************************************************************************)
CkScan ==
    /\ ck.pc = "scan"
    /\ LET st0 == [manifest_builder |-> ck.manifest_builder,
                   protocol |-> ck.protocol,
                   failed |-> FALSE,
                   last_version |-> ck.start_version,
                   compacted_actions |-> 0]
           st  == FoldScan(st0, Scan(ck.start_version, ck.end_version))
       IN  ck' = IF st.failed
                 THEN Returned("ManifestCheckpoint", ck.start_version, FALSE)
                 ELSE IF st.compacted_actions = 0
                 THEN Returned("none", ck.start_version, FALSE)
                 ELSE [ck EXCEPT
                         !.pc = "save",
                         !.manifest_builder = st.manifest_builder,
                         !.protocol = st.protocol,
                         !.last_version = st.last_version,
                         !.compacted_actions = st.compacted_actions]
    /\ UNCHANGED <<logs, committed, version, flushed_manifest_version,
                   checkpoints, last_checkpoint>>
    /\ UNCHANGED <<table_vars, options_vars, planner_vars>>

\* lines 110-116: the RegionCheckpoint built from the locals
BuildCheckpoint(locals) ==
    [some |-> TRUE,
     protocol |-> locals.protocol,
     last_version |-> locals.last_version,
     compacted_actions |-> locals.compacted_actions,
     checkpoint |-> locals.manifest_builder]

(***************************************************************************)
(* do_checkpoint, line 118: save_checkpoint persists the checkpoint and    *)
(* publishes it as the latest; its error is returned.                      *)
(***************************************************************************)
CkSave ==
    /\ ck.pc = "save"
    /\ checkpoints' = (ck.last_version :> BuildCheckpoint(ck)) @@ checkpoints
    /\ last_checkpoint' = BuildCheckpoint(ck)
    /\ ck' = [ck EXCEPT !.pc = "delete"]
    /\ UNCHANGED <<logs, committed, version, flushed_manifest_version>>
    /\ UNCHANGED <<table_vars, options_vars, planner_vars>>

\* a slip in lines 118-122: the log objects are deleted before the error of
\* save_checkpoint is returned
CkSaveFailsAfterDelete ==
    /\ ck.pc = "save"
    /\ logs' = [v \in DOMAIN logs \ DeleteRange(ck.start_version, ck.last_version)
                   |-> logs[v]]
    /\ ck' = Returned("err", ck.start_version, FALSE)
    /\ UNCHANGED <<committed, version, flushed_manifest_version,
                   checkpoints, last_checkpoint>>
    /\ UNCHANGED <<table_vars, options_vars, planner_vars>>

CkSaveFails ==
    /\ ck.pc = "save"
    /\ ck' = Returned("err", ck.start_version, FALSE)
    /\ UNCHANGED <<logs, committed, version, flushed_manifest_version,
                   checkpoints, last_checkpoint>>
    /\ UNCHANGED <<table_vars, options_vars, planner_vars>>

(***************************************************************************)
(* do_checkpoint, lines 119-139: delete the log objects of                 *)
(* [start_version, last_version + 1); an error of the deletion is logged   *)
(* and the checkpoint is returned all the same.                            *)
(***************************************************************************)
RemoveLogs(gone) == [v \in DOMAIN logs \ gone |-> logs[v]]

CkDelete ==
    /\ ck.pc = "delete"
    /\ logs' = RemoveLogs(DeleteRange(ck.start_version, ck.last_version))
    /\ ck' = Returned("some", ck.start_version, FALSE)
    /\ UNCHANGED <<committed, version, flushed_manifest_version,
                   checkpoints, last_checkpoint>>
    /\ UNCHANGED <<table_vars, options_vars, planner_vars>>

\* a slip in line 119: the error of delete is returned with `?`
CkDeleteFailsReturnsErr ==
    /\ ck.pc = "delete"
    /\ \E gone \in SUBSET DeleteRange(ck.start_version, ck.last_version) :
           /\ gone # DeleteRange(ck.start_version, ck.last_version)
           /\ logs' = [v \in DOMAIN logs \ gone |-> logs[v]]
           /\ ck' = Returned("err", ck.start_version, TRUE)
    /\ UNCHANGED <<committed, version, flushed_manifest_version,
                   checkpoints, last_checkpoint>>
    /\ UNCHANGED <<table_vars, options_vars, planner_vars>>

\* the deletion fails after it has removed some of the objects, not all
CkDeleteFails ==
    /\ ck.pc = "delete"
    /\ \E gone \in SUBSET DeleteRange(ck.start_version, ck.last_version) :
           /\ gone # DeleteRange(ck.start_version, ck.last_version)
           /\ logs' = RemoveLogs(gone)
           /\ ck' = Returned("some", ck.start_version, TRUE)
    /\ UNCHANGED <<committed, version, flushed_manifest_version,
                   checkpoints, last_checkpoint>>
    /\ UNCHANGED <<table_vars, options_vars, planner_vars>>

Next ==
    \/ \E action_list \in ActionLists \cup InitialActionLists : Update(action_list)
    \/ \E manifest_version \in MIN_VERSION..(MIN_VERSION + MaxUpdates) :
           SetFlushedManifestVersion(manifest_version)
    \/ CkBegin
    \/ CkScan
    \/ CkSave
    \/ CkSaveFails
    \/ CkDelete
    \/ CkDeleteFails

Spec == Init /\ [][Next]_vars

(***************************************************************************)
(* The manifest started with a GC duration (with_checkpointer, line 152,   *)
(* and start()): a periodic task purges what the latest checkpoint has     *)
(* superseded, the checkpoint objects with a smaller last_version and the  *)
(* log objects it has folded.                                              *)
(***************************************************************************)
\* the checkpoint objects the latest checkpoint has superseded
OldCheckpoints == {v \in DOMAIN checkpoints : v < last_checkpoint.last_version}

\* the log objects the latest checkpoint has folded
OldLogs == {v \in DOMAIN logs : v <= last_checkpoint.last_version}

\* the purge takes the latest checkpoint with the older ones
PurgedThroughLatest(gone) ==
    [v \in DOMAIN checkpoints \ (gone \cup {last_checkpoint.last_version})
        |-> checkpoints[v]]

\* the checkpoint objects after those of gone are purged
Purged(gone) == [v \in DOMAIN checkpoints \ gone |-> checkpoints[v]]

\* one pass of the GC task that purges all it finds
Gc ==
    /\ last_checkpoint.some
    /\ OldCheckpoints \cup OldLogs # {}
    /\ checkpoints' = Purged(OldCheckpoints)
    /\ logs' = RemoveLogs(OldLogs)
    /\ UNCHANGED <<committed, version, flushed_manifest_version, last_checkpoint, ck>>
    /\ UNCHANGED <<table_vars, options_vars, planner_vars>>

\* one pass of the GC task in which a deletion fails: some of the objects
\* stay until a later pass
GcFails ==
    /\ last_checkpoint.some
    /\ \E gone_checkpoints \in SUBSET OldCheckpoints :
       \E gone_logs \in SUBSET OldLogs :
           /\ gone_checkpoints \cup gone_logs # OldCheckpoints \cup OldLogs
           /\ gone_checkpoints \cup gone_logs # {}
           /\ checkpoints' = Purged(gone_checkpoints)
           /\ logs' = RemoveLogs(gone_logs)
    /\ UNCHANGED <<committed, version, flushed_manifest_version, last_checkpoint, ck>>
    /\ UNCHANGED <<table_vars, options_vars, planner_vars>>

\* the GC reads the versions of the objects, never an action list: one kind
\* of list is appended after the region's first
GcActionLists == InitialActionLists \cup { <<Edit(1, {"f1"}, {})>> }

GcNext ==
    \/ \E action_list \in GcActionLists : Update(action_list)
    \/ \E manifest_version \in MIN_VERSION..(MIN_VERSION + MaxUpdates) :
           SetFlushedManifestVersion(manifest_version)
    \/ CkBegin
    \/ CkScan
    \/ CkSave
    \/ CkSaveFails
    \/ CkDelete
    \/ CkDeleteFails
    \/ Gc
    \/ GcFails

\* the GC task runs again after every gc_duration: a pass that purges all
\* it finds comes as long as something is left to purge
GcSpec == Init /\ [][GcNext]_vars /\ WF_vars(Gc)

(***************************************************************************)
(* The table manifest (TableManifest, a ManifestImpl as the region         *)
(* manifest is): update stores the action list under the next version, the *)
(* protocol at the head of the first; a failed update leaves the version   *)
(* counter where it was.                                                   *)
(***************************************************************************)
TableStored(v, action_list) ==
    IF v = MIN_VERSION THEN <<TableProtocol>> \o action_list ELSE action_list

\* the log objects of the table manifest after update(action_list) has succeeded
TableUpdated(action_list) ==
    (table_manifest_version :> TableStored(table_manifest_version, action_list))
        @@ table_logs

\* the version a failed update had allocated is not given back
VersionAfterFailedUpdateKept(manifest_version) == manifest_version + 1

\* the version counter after an update that failed
VersionAfterFailedUpdate(manifest_version) == manifest_version

\* Manifest::scan(start, end) of the table manifest drained with next_action
TableScan(start, end) ==
    LET vs == Ascending({v \in DOMAIN table_logs : start <= v /\ v < end})
    IN  [i \in 1..Len(vs) |-> <<vs[i], table_logs[vs[i]]>>]

(***************************************************************************)
(* MitoTable::create, lines 433-455: the table info goes to the manifest   *)
(* as a Change, then the table is built around it.                         *)
(***************************************************************************)
CreateTable ==
    /\ ~table_info.some
    /\ table_logs = <<>>
    /\ table_logs' = TableUpdated(<<TableChange(InitialTableInfo)>>)
    /\ table_manifest_version' = table_manifest_version + 1
    /\ table_info' = InitialTableInfo
    /\ create_ret' = "ok"
    /\ UNCHANGED <<region_meta, alter_lock, alter, alters_begun, recovered>>
    /\ UNCHANGED <<region_vars, options_vars, planner_vars>>

\* line 447: the update fails, UpdateTableManifest is returned, no table is built
CreateTableFails ==
    /\ ~table_info.some
    /\ table_logs = <<>>
    /\ create_ret' = "UpdateTableManifest"
    /\ table_manifest_version' = VersionAfterFailedUpdate(table_manifest_version)
    /\ UNCHANGED <<table_info, region_meta, table_logs, alter_lock, alter,
                   alters_begun, recovered>>
    /\ UNCHANGED <<region_vars, options_vars, planner_vars>>

(***************************************************************************)
(* MitoTable::info_and_op_for_alter and create_alter_operation, lines      *)
(* 563-612: the new table info and the operation for the regions.          *)
(***************************************************************************)
\* builder_with_alter_kind(..).build() fails: a column added twice, a
\* column dropped that is not there
BuildFails(current_info, alter_kind) ==
    \/ alter_kind.kind = "AddColumns" /\ alter_kind.column \in current_info.columns
    \/ alter_kind.kind = "DropColumns" /\ alter_kind.column \notin current_info.columns

\* lines 569-589: new_info
NewInfo(current_info, alter_kind) ==
    IF alter_kind.kind = "RenameTable"
    THEN [current_info EXCEPT !.name = alter_kind.new_table_name,
                              !.version = current_info.version + 1]
    ELSE IF alter_kind.kind = "AddColumns"
    THEN [current_info EXCEPT !.columns = current_info.columns \cup {alter_kind.column},
                              !.version = current_info.version + 1,
                              !.next_column_id = current_info.next_column_id + 1]
    ELSE [current_info EXCEPT !.columns = current_info.columns \ {alter_kind.column},
                              !.version = current_info.version + 1]

\* lines 596-612: create_alter_operation; None for RenameTable
AlterOperation(alter_kind) ==
    IF alter_kind.kind = "RenameTable" THEN NoAlterOperation
    ELSE [some |-> TRUE, kind |-> alter_kind.kind, column |-> alter_kind.column]

\* Region::alter(AlterRequest { operation, version }) done: the region's
\* metadata after the operation
AlteredRegion(meta, alter_op) ==
    [version |-> meta.version + 1,
     columns |-> IF alter_op.kind = "AddColumns"
                 THEN meta.columns \cup {alter_op.column}
                 ELSE meta.columns \ {alter_op.column},
     applied |-> Append(meta.applied, alter_op)]

(***************************************************************************)
(* MitoTable::alter, lines 221-257, in the steps its awaits cut it into.   *)
(***************************************************************************)
\* a slip in line 222: the alter lock is not waited for
AlterLockNotAwaited(p) == TRUE

\* line 222: self.alter_lock.lock().await returns when no task holds the lock
AlterLockFree(p) == alter_lock = "free"

\* lines 222-227: take the lock, read the table info, build the new info
\* and the operation; an error of info_and_op_for_alter is returned
AlterBegin(p, alter_kind) ==
    /\ table_info.some
    /\ alter[p].pc = "idle"
    /\ alters_begun < MaxAlters
    /\ AlterLockFree(p)
    /\ alters_begun' = alters_begun + 1
    /\ IF BuildFails(table_info, alter_kind)
       THEN /\ alter' = [alter EXCEPT ![p] = AlterReturned("TableOperation", 0)]
            /\ UNCHANGED alter_lock
       ELSE /\ alter' = [alter EXCEPT ![p] =
                           [NotAltering EXCEPT
                              !.pc = "regions", !.ret = "running",
                              !.kind = alter_kind,
                              !.table_info = table_info,
                              !.new_info = NewInfo(table_info, alter_kind),
                              !.alter_op = AlterOperation(alter_kind),
                              !.todo = IF AlterOperation(alter_kind).some
                                       THEN Regions ELSE {}]]
            /\ alter_lock' = p
    /\ UNCHANGED <<table_info, create_ret, region_meta, table_logs,
                   table_manifest_version, recovered>>
    /\ UNCHANGED <<region_vars, options_vars, planner_vars>>

\* lines 534-538: the region is already altered
AlreadyAltered(meta, table_version) == meta.version > table_version

\* alter_regions, lines 533-557: one region of the loop, skipped when it is
\* already altered, altered otherwise
AlterRegion(p, r) ==
    /\ alter[p].pc = "regions"
    /\ r \in alter[p].todo
    /\ region_meta' =
          IF AlreadyAltered(region_meta[r], alter[p].table_info.version)
          THEN region_meta
          ELSE [region_meta EXCEPT ![r] = AlteredRegion(region_meta[r], alter[p].alter_op)]
    /\ alter' = [alter EXCEPT ![p].todo = alter[p].todo \ {r}]
    /\ UNCHANGED <<table_info, create_ret, table_logs, table_manifest_version,
                   alter_lock, alters_begun, recovered>>
    /\ UNCHANGED <<region_vars, options_vars, planner_vars>>

\* lines 552-556: Region::alter fails, the error is returned and the loop left
AlterRegionFails(p, r) ==
    /\ alter[p].pc = "regions"
    /\ r \in alter[p].todo
    /\ ~AlreadyAltered(region_meta[r], alter[p].table_info.version)
    /\ alter' = [alter EXCEPT ![p] = AlterFailed(alter[p], "TableOperation", 0)]
    /\ alter_lock' = "free"
    /\ UNCHANGED <<table_info, create_ret, region_meta, table_logs,
                   table_manifest_version, alters_begun, recovered>>
    /\ UNCHANGED <<region_vars, options_vars, planner_vars>>

\* lines 240-251: the new table info goes to the manifest as a Change
AlterUpdateManifest(p) ==
    /\ alter[p].pc = "regions"
    /\ alter[p].todo = {}
    /\ table_logs' = TableUpdated(<<TableChange(alter[p].new_info)>>)
    /\ table_manifest_version' = table_manifest_version + 1
    /\ alter' = [alter EXCEPT ![p].pc = "swap",
                              ![p].manifest_version = table_manifest_version]
    /\ UNCHANGED <<table_info, create_ret, region_meta, alter_lock,
                   alters_begun, recovered>>
    /\ UNCHANGED <<region_vars, options_vars, planner_vars>>

\* a slip in lines 240-254: the table info is swapped in although the
\* update has failed
AlterUpdateManifestFailsSwaps(p) ==
    /\ alter[p].pc = "regions"
    /\ alter[p].todo = {}
    /\ table_info' = alter[p].new_info
    /\ alter' = [alter EXCEPT ![p] =
                    AlterFailed(alter[p], "UpdateTableManifest", table_manifest_version)]
    /\ alter_lock' = "free"
    /\ UNCHANGED <<create_ret, region_meta, table_logs, table_manifest_version,
                   alters_begun, recovered>>
    /\ UNCHANGED <<region_vars, options_vars, planner_vars>>

\* lines 247-251: the update fails, UpdateTableManifest is returned
AlterUpdateManifestFails(p) ==
    /\ alter[p].pc = "regions"
    /\ alter[p].todo = {}
    /\ table_manifest_version' = VersionAfterFailedUpdate(table_manifest_version)
    /\ alter' = [alter EXCEPT ![p] =
                    AlterFailed(alter[p], "UpdateTableManifest", table_manifest_version)]
    /\ alter_lock' = "free"
    /\ UNCHANGED <<table_info, create_ret, region_meta, table_logs,
                   alters_begun, recovered>>
    /\ UNCHANGED <<region_vars, options_vars, planner_vars>>

\* line 254: set_table_info(new_info)
SwappedInfo(locals) == locals.new_info

\* lines 254-257: swap the table info in, return Ok, drop the lock
AlterSwap(p) ==
    /\ alter[p].pc = "swap"
    /\ table_info' = SwappedInfo(alter[p])
    /\ alter' = [alter EXCEPT ![p] = AlterReturned("ok", alter[p].manifest_version)]
    /\ alter_lock' = "free"
    /\ UNCHANGED <<create_ret, region_meta, table_logs, table_manifest_version,
                   alters_begun, recovered>>
    /\ UNCHANGED <<region_vars, options_vars, planner_vars>>

(***************************************************************************)
(* MitoTable::recover_table_info, lines 461-506, over a manifest built by  *)
(* build_manifest when the table is opened again: the tasks of the table   *)
(* that was open are gone, the regions keep their metadata.                *)
(***************************************************************************)
\* lines 469-489: the loop over the iterator; st = [table_info, last_manifest_version]
RECURSIVE RecoverFold(_, _)
RecoverFold(st, entries) ==
    IF entries = <<>> THEN st
    ELSE LET manifest_version == Head(entries)[1]
             actions == Head(entries)[2]
             changes == {i \in 1..Len(actions) : actions[i].kind = "Change"}
             last    == CHOOSE i \in changes : \A j \in changes : j <= i
         IN  RecoverFold([table_info |-> IF changes = {} THEN st.table_info
                                         ELSE actions[last].table_info,
                          last_manifest_version |-> manifest_version],
                         Tail(entries))

\* a slip in line 496: the manifest is given the last scanned version
NextVersionAfterRecoverSame(st) == st.last_manifest_version

\* line 496: update_state(last_manifest_version + 1, protocol)
NextVersionAfterRecover(st) == st.last_manifest_version + 1

recover_table_info ==
    /\ LET st == RecoverFold([table_info |-> NoTableInfo,
                              last_manifest_version |-> MIN_VERSION],
                             TableScan(MIN_VERSION, MAX_VERSION))
       IN  /\ recovered' = st.table_info
           /\ table_info' = st.table_info
           /\ table_manifest_version' = IF st.table_info.some
                                        THEN NextVersionAfterRecover(st)
                                        ELSE table_manifest_version
    /\ alter' = [p \in Procs |-> NotAltering]
    /\ alter_lock' = "free"
    /\ UNCHANGED <<create_ret, region_meta, table_logs, alters_begun>>
    /\ UNCHANGED <<region_vars, options_vars, planner_vars>>

TableNext ==
    \/ CreateTable
    \/ CreateTableFails
    \/ \E p \in Procs : \E alter_kind \in AlterKinds : AlterBegin(p, alter_kind)
    \/ \E p \in Procs : \E r \in Regions : AlterRegion(p, r)
    \/ \E p \in Procs : \E r \in Regions : AlterRegionFails(p, r)
    \/ \E p \in Procs : AlterUpdateManifest(p)
    \/ \E p \in Procs : AlterUpdateManifestFails(p)
    \/ \E p \in Procs : AlterSwap(p)
    \/ recover_table_info

TableSpec == Init /\ [][TableNext]_vars

(***************************************************************************)
(* Numbers as text.                                                        *)
(***************************************************************************)
Digits == <<"0", "1", "2", "3", "4", "5", "6", "7", "8", "9">>

DigitChars == {Digits[i] : i \in 1..10}

IsDigit(c) == c \in DigitChars

DigitValue(c) == (CHOOSE i \in 1..10 : Digits[i] = c) - 1

Letters ==
    {"a", "d", "e", "h", "i", "m", "n", "o", "r", "s", "t", "u", "y",
     "A", "B", "K", "M"}

\* u64::to_string: the decimal digits
RECURSIVE Decimal(_)
Decimal(n) ==
    IF n < 10 THEN <<Digits[n + 1]>>
    ELSE Decimal(n \div 10) \o <<Digits[(n % 10) + 1]>>

\* line 160: i64::to_string
I64ToString(n) == IF n < 0 THEN <<"-">> \o Decimal(-n) ELSE Decimal(n)

\* the longest prefix of text made of the characters in chars
RECURSIVE TakeWhile(_, _)
TakeWhile(chars, text) ==
    IF text = <<>> \/ Head(text) \notin chars THEN <<>>
    ELSE <<Head(text)>> \o TakeWhile(chars, Tail(text))

DropFirst(text, n) == SubSeq(text, n + 1, Len(text))

\* the value of a run of digits
RECURSIVE DigitsValue(_, _)
DigitsValue(acc, digits) ==
    IF digits = <<>> THEN acc
    ELSE DigitsValue(acc * 10 + DigitValue(Head(digits)), Tail(digits))

\* line 118: str::parse::<i64>: an optional sign, then digits and nothing
\* else (the texts here stay short of the 19 digits at which i64 overflows)
ParseI64(text) ==
    LET signed == text # <<>> /\ Head(text) \in {"-", "+"}
        digits == IF signed THEN Tail(text) ELSE text
    IN  IF digits = <<>> \/ \E i \in 1..Len(digits) : ~IsDigit(digits[i])
        THEN [ok |-> FALSE, value |-> 0]
        ELSE [ok |-> TRUE,
              value |-> IF signed /\ Head(text) = "-"
                        THEN -DigitsValue(0, digits) ELSE DigitsValue(0, digits)]

(***************************************************************************)
(* ReadableSize as text (common_base::readable_size, called at lines 94    *)
(* and 150): Display writes the size in the largest unit it reaches, with  *)
(* one decimal; FromStr reads a decimal number and a unit.                 *)
(***************************************************************************)
\* "{:.1}" of size / unit
OneDecimal(size, unit) ==
    LET tenths == (size * 10 + unit \div 2) \div unit
    IN  Decimal(tenths \div 10) \o <<".">> \o <<Digits[(tenths % 10) + 1]>>

ReadableSizeToString(size) ==
    IF size >= MIB THEN OneDecimal(size, MIB) \o <<"M", "i", "B">>
    ELSE IF size >= KIB THEN OneDecimal(size, KIB) \o <<"K", "i", "B">>
    ELSE Decimal(size) \o <<"B">>

SizeUnits ==
    (<<"B">> :> 1) @@ (<<>> :> 1)
    @@ (<<"K">> :> KIB) @@ (<<"K", "B">> :> KIB) @@ (<<"K", "i", "B">> :> KIB)
    @@ (<<"M">> :> MIB) @@ (<<"M", "B">> :> MIB) @@ (<<"M", "i", "B">> :> MIB)

NumberChars == DigitChars \cup {"."}

ReadableSizeFromStr(text) ==
    LET number   == TakeWhile(NumberChars, text)
        unit     == DropFirst(text, Len(number))
        whole    == TakeWhile(DigitChars, number)
        rest     == DropFirst(number, Len(whole))
        fraction == IF rest = <<>> THEN <<>> ELSE Tail(rest)
        bad      == \/ whole = <<>>
                    \/ unit \notin DOMAIN SizeUnits
                    \/ Len(fraction) > 1
                    \/ \E i \in 1..Len(fraction) : ~IsDigit(fraction[i])
    IN  IF bad THEN [ok |-> FALSE, value |-> 0]
        ELSE [ok |-> TRUE,
              value |-> (DigitsValue(DigitsValue(0, whole),
                                     IF fraction = <<>> THEN <<"0">> ELSE fraction)
                         * SizeUnits[unit]) \div 10]

(***************************************************************************)
(* Duration as text (humantime, called at lines 106 and 154).              *)
(***************************************************************************)
SecondsPerYear == 31557600
SecondsPerMonth == 2630016
SecondsPerDay == 86400

\* item_plural and item of humantime::format_duration: nothing for zero, a
\* space before every item but the first
Item(started, value, name, plural) ==
    IF value = 0 THEN <<>>
    ELSE (IF started THEN <<" ">> ELSE <<>>) \o Decimal(value) \o name
         \o (IF plural /\ value > 1 THEN <<"s">> ELSE <<>>)

RECURSIVE Items(_, _)
Items(started, items) ==
    IF items = <<>> THEN <<>>
    ELSE LET item == Item(started, Head(items)[1], Head(items)[2], Head(items)[3])
         IN  item \o Items(started \/ item # <<>>, Tail(items))

\* line 154: humantime::format_duration(ttl).to_string()
FormatDuration(d) ==
    IF d.secs = 0 /\ d.nanos = 0 THEN <<"0", "s">>
    ELSE LET ydays    == d.secs % SecondsPerYear
             mdays    == ydays % SecondsPerMonth
             day_secs == mdays % SecondsPerDay
         IN  Items(FALSE,
                   << <<d.secs \div SecondsPerYear, <<"y", "e", "a", "r">>, TRUE>>,
                      <<ydays \div SecondsPerMonth, <<"m", "o", "n", "t", "h">>, TRUE>>,
                      <<mdays \div SecondsPerDay, <<"d", "a", "y">>, TRUE>>,
                      <<day_secs \div 3600, <<"h">>, FALSE>>,
                      <<(day_secs % 3600) \div 60, <<"m">>, FALSE>>,
                      <<day_secs % 60, <<"s">>, FALSE>>,
                      <<d.nanos \div 1000000, <<"m", "s">>, FALSE>>,
                      <<(d.nanos \div 1000) % 1000, <<"u", "s">>, FALSE>>,
                      <<d.nanos % 1000, <<"n", "s">>, FALSE>> >>)

\* the units humantime reads, of which these are the ones format_duration
\* writes: the seconds and the nanoseconds one of the unit is worth
DurationUnits ==
    (<<"y", "e", "a", "r">> :> Duration(SecondsPerYear, 0))
    @@ (<<"y", "e", "a", "r", "s">> :> Duration(SecondsPerYear, 0))
    @@ (<<"m", "o", "n", "t", "h">> :> Duration(SecondsPerMonth, 0))
    @@ (<<"m", "o", "n", "t", "h", "s">> :> Duration(SecondsPerMonth, 0))
    @@ (<<"d", "a", "y">> :> Duration(SecondsPerDay, 0))
    @@ (<<"d", "a", "y", "s">> :> Duration(SecondsPerDay, 0))
    @@ (<<"h">> :> Duration(3600, 0))
    @@ (<<"m">> :> Duration(60, 0))
    @@ (<<"s">> :> Duration(1, 0))
    @@ (<<"m", "s">> :> Duration(0, 1000000))
    @@ (<<"u", "s">> :> Duration(0, 1000))
    @@ (<<"n", "s">> :> Duration(0, 1))

\* lines 105-113: str::parse::<humantime::Duration>: items of a number and
\* a unit, spaces between them allowed, one item at least
RECURSIVE ParseDurationItems(_, _, _)
ParseDurationItems(acc, parsed, text) ==
    LET t1     == DropFirst(text, Len(TakeWhile({" "}, text)))
        number == TakeWhile(DigitChars, t1)
        t2     == DropFirst(t1, Len(number))
        t3     == DropFirst(t2, Len(TakeWhile({" "}, t2)))
        unit   == TakeWhile(Letters, t3)
        t4     == DropFirst(t3, Len(unit))
    IN  IF t1 = <<>>
        THEN [ok |-> parsed, value |-> acc]
        ELSE IF number = <<>> \/ unit \notin DOMAIN DurationUnits
        THEN [ok |-> FALSE, value |-> Duration(0, 0)]
        ELSE LET n     == DigitsValue(0, number)
                 nanos == acc.nanos + n * DurationUnits[unit].nanos
             IN  ParseDurationItems(
                     Duration(acc.secs + n * DurationUnits[unit].secs
                                  + nanos \div 1000000000,
                              nanos % 1000000000),
                     TRUE, t4)

ParseDuration(text) == ParseDurationItems(Duration(0, 0), FALSE, text)

(***************************************************************************)
(* From<&TableOptions> for HashMap<String, String>, lines 144-170.         *)
(***************************************************************************)
\* lines 163-167: res.extend(extra_options): an entry of extra_options
\* replaces the entry res has under the same key
Extended(res, extra_options) ==
    [k \in DOMAIN res \cup DOMAIN extra_options |->
        IF k \in DOMAIN extra_options THEN extra_options[k] ELSE res[k]]

\* lines 147-162: one entry for each of the three fields that is Some
TypedEntries(opts) ==
    LET keys == (IF opts.write_buffer_size.some THEN {WRITE_BUFFER_SIZE_KEY} ELSE {})
                \cup (IF opts.ttl.some THEN {TTL_KEY} ELSE {})
                \cup (IF opts.compaction_time_window.some
                      THEN {COMPACTION_TIME_WINDOW_KEY} ELSE {})
    IN  [k \in keys |->
            IF k = WRITE_BUFFER_SIZE_KEY
            THEN ReadableSizeToString(opts.write_buffer_size.value)
            ELSE IF k = TTL_KEY THEN FormatDuration(opts.ttl.value)
            ELSE I64ToString(opts.compaction_time_window.value)]

HashMapFrom(opts) == Extended(TypedEntries(opts), opts.extra_options)

(***************************************************************************)
(* TryFrom<&HashMap<String, String>> for TableOptions, lines 88-142.       *)
(***************************************************************************)
\* lines 130-133: the keys that go to extra_options
IsExtraKey(k) ==
    k \notin {WRITE_BUFFER_SIZE_KEY, REGIONS_KEY, TTL_KEY, COMPACTION_TIME_WINDOW_KEY}

ParseTableOption(key) ==
    [done |-> TRUE, ok |-> FALSE, options |-> DefaultTableOptions, key |-> key]

TableOptionsTryFrom(value) ==
    LET size   == IF WRITE_BUFFER_SIZE_KEY \in DOMAIN value
                  THEN ReadableSizeFromStr(value[WRITE_BUFFER_SIZE_KEY])
                  ELSE [ok |-> TRUE, value |-> 0]
        ttl    == IF TTL_KEY \in DOMAIN value
                  THEN ParseDuration(value[TTL_KEY])
                  ELSE [ok |-> TRUE, value |-> Duration(0, 0)]
        window == IF COMPACTION_TIME_WINDOW_KEY \in DOMAIN value
                  THEN ParseI64(value[COMPACTION_TIME_WINDOW_KEY])
                  ELSE [ok |-> TRUE, value |-> 0]
    IN  IF ~size.ok THEN ParseTableOption(WRITE_BUFFER_SIZE_KEY)
        ELSE IF ~ttl.ok THEN ParseTableOption(TTL_KEY)
        ELSE IF ~window.ok THEN ParseTableOption(COMPACTION_TIME_WINDOW_KEY)
        ELSE [done |-> TRUE, ok |-> TRUE, key |-> "",
              options |->
                 [write_buffer_size |->
                     IF WRITE_BUFFER_SIZE_KEY \in DOMAIN value
                     THEN SomeNumber(size.value) ELSE NoNumber,
                  ttl |->
                     IF TTL_KEY \in DOMAIN value
                     THEN SomeDuration(ttl.value) ELSE NoDuration,
                  compaction_time_window |->
                     IF COMPACTION_TIME_WINDOW_KEY \in DOMAIN value
                     THEN SomeNumber(window.value) ELSE NoNumber,
                  extra_options |->
                     [k \in {x \in DOMAIN value : IsExtraKey(x)} |-> value[k]]]]

(***************************************************************************)
(* The conversions at work: a TableOptions value is turned into the map    *)
(* and the map is parsed, as in test_convert_hashmap_between_table_options *)
(* (lines 313-344).                                                        *)
(***************************************************************************)
OptionsInit ==
    /\ InitRegionAndTable
    /\ InitPlanner
    /\ options \in TableOptionsValues
    /\ serialized_map = NoMap
    /\ serialized = NotConverted

\* line 321: HashMap::from(&options)
ToHashMap ==
    /\ ~serialized_map.some
    /\ serialized_map' = [some |-> TRUE, map |-> HashMapFrom(options)]
    /\ UNCHANGED <<options, serialized>>
    /\ UNCHANGED <<region_vars, table_vars, planner_vars>>

\* line 322: TableOptions::try_from(&serialized_map)
TryFromHashMap ==
    /\ serialized_map.some
    /\ ~serialized.done
    /\ serialized' = TableOptionsTryFrom(serialized_map.map)
    /\ UNCHANGED <<options, serialized_map>>
    /\ UNCHANGED <<region_vars, table_vars, planner_vars>>

OptionsNext ==
    \/ ToHashMap
    \/ TryFromHashMap

OptionsSpec == OptionsInit /\ [][OptionsNext]_vars

(***************************************************************************)
(* The expressions and the plan nodes the planner builds (DataFusion's     *)
(* Expr and LogicalPlan, and the extension plans of this crate), with what *)
(* the planner relies on of DataFusion: the name an expression is          *)
(* displayed with, the schema of a plan, and the refusal of a plan whose   *)
(* expressions name a column its input lacks.                              *)
(***************************************************************************)
\* Column { relation, name }; relation <<>> is None
Column(relation, name) == [expr |-> "Column", relation |-> relation, name |-> name]
Float64(val) == [expr |-> "Literal", scalar |-> "Float64", float |-> val]
Utf8(val) == [expr |-> "Literal", scalar |-> "Utf8", utf8 |-> val]
TimestampMillisecond(ms) ==
    [expr |-> "Literal", scalar |-> "TimestampMillisecond", millis |-> ms]
BinaryExpr(left, op, right) ==
    [expr |-> "BinaryExpr", left |-> left, op |-> op, right |-> right]
Cast(e, data_type) == [expr |-> "Cast", inner |-> e, data_type |-> data_type]
Negative(e) == [expr |-> "Negative", inner |-> e]
Alias(e, name) == [expr |-> "Alias", inner |-> e, name |-> name]
IsNotNull(e) == [expr |-> "IsNotNull", inner |-> e]
AggregateFunction(fun, args) == [expr |-> "AggregateFunction", fun |-> fun, args |-> args]
ScalarFunction(fun, args) == [expr |-> "ScalarFunction", fun |-> fun, args |-> args]
SortExpr(e, asc, nulls_first) ==
    [expr |-> "Sort", inner |-> e, asc |-> asc, nulls_first |-> nulls_first]

\* the sequence f(s[1]), f(s[2]), ...
Map(f(_), s) == [i \in 1..Len(s) |-> f(s[i])]

Range(s) == {s[i] : i \in 1..Len(s)}

\* the sequences, joined with sep between them
RECURSIVE Join(_, _)
Join(seqs, sep) ==
    IF seqs = <<>> THEN <<>>
    ELSE IF Len(seqs) = 1 THEN seqs[1]
    ELSE seqs[1] \o sep \o Join(Tail(seqs), sep)

\* Expr::display_name: the name of the column an expression makes
RECURSIVE DisplayName(_)
DisplayName(e) ==
    IF e.expr = "Column"
    THEN IF e.relation = <<>> THEN e.name ELSE e.relation \o <<".">> \o e.name
    ELSE IF e.expr = "Alias" THEN e.name
    ELSE IF e.expr = "Literal"
    THEN IF e.scalar = "Float64" THEN <<"Float64(">> \o I64ToString(e.float) \o <<")">>
         ELSE IF e.scalar = "Utf8" THEN <<"Utf8(\"">> \o e.utf8 \o <<"\")">>
         ELSE <<"TimestampMillisecond(">> \o I64ToString(e.millis) \o <<", None)">>
    ELSE IF e.expr = "BinaryExpr"
    THEN DisplayName(e.left) \o <<" ", e.op, " ">> \o DisplayName(e.right)
    ELSE IF e.expr = "Cast" THEN DisplayName(e.inner)
    ELSE IF e.expr = "Negative" THEN <<"(- ">> \o DisplayName(e.inner) \o <<")">>
    ELSE IF e.expr = "IsNotNull" THEN DisplayName(e.inner) \o <<" IS NOT NULL">>
    ELSE IF e.expr = "Sort" THEN DisplayName(e.inner)
    ELSE <<e.fun, "(">>
         \o Join([i \in 1..Len(e.args) |-> DisplayName(e.args[i])], <<",">>)
         \o <<")">>

\* the columns an expression reads
RECURSIVE ColumnsOf(_)
ColumnsOf(e) ==
    IF e.expr = "Column" THEN {e}
    ELSE IF e.expr = "Literal" THEN {}
    ELSE IF e.expr = "BinaryExpr" THEN ColumnsOf(e.left) \cup ColumnsOf(e.right)
    ELSE IF e.expr \in {"AggregateFunction", "ScalarFunction"}
    THEN UNION {ColumnsOf(e.args[i]) : i \in 1..Len(e.args)}
    ELSE ColumnsOf(e.inner)

\* a field of a schema: the qualifier (<<>>: none) and the name
Field(relation, name) == [relation |-> relation, name |-> name]

\* the fields of a schema a column resolves to
FieldsOf(schema, column) ==
    {i \in 1..Len(schema) :
        /\ schema[i].name = column.name
        /\ column.relation = <<>> \/ column.relation = schema[i].relation}

\* the columns of the expressions all resolve in the schema
Resolve(schema, exprs) ==
    \A i \in 1..Len(exprs) : \A c \in ColumnsOf(exprs[i]) : FieldsOf(schema, c) # {}

\* normalize_col: the columns of an expression qualified as the fields of
\* the schema they name
RECURSIVE Normalize(_, _)
Normalize(schema, e) ==
    IF e.expr = "Column"
    THEN IF e.relation = <<>> /\ FieldsOf(schema, e) # {}
         THEN LET field == schema[CHOOSE i \in FieldsOf(schema, e) :
                                     \A j \in FieldsOf(schema, e) : i <= j]
              IN  Column(field.relation, field.name)
         ELSE e
    ELSE IF e.expr = "Literal" THEN e
    ELSE IF e.expr = "BinaryExpr"
    THEN [e EXCEPT !.left = Normalize(schema, e.left),
                   !.right = Normalize(schema, e.right)]
    ELSE IF e.expr \in {"AggregateFunction", "ScalarFunction"}
    THEN [e EXCEPT !.args = [i \in 1..Len(e.args) |-> Normalize(schema, e.args[i])]]
    ELSE [e EXCEPT !.inner = Normalize(schema, e.inner)]

NormalizeAll(schema, exprs) == [i \in 1..Len(exprs) |-> Normalize(schema, exprs[i])]

\* the field an expression of a projection or an aggregate makes
OutputField(schema, e) ==
    IF e.expr = "Column"
    THEN IF FieldsOf(schema, e) = {} THEN Field(e.relation, e.name)
         ELSE schema[CHOOSE i \in FieldsOf(schema, e) : \A j \in FieldsOf(schema, e) : i <= j]
    ELSE Field(<<>>, DisplayName(e))

\* the plan nodes
NoPlan == [node |-> "None"]
TableScanNode(table_name, filters) ==
    [node |-> "TableScan", table_name |-> table_name, filters |-> filters]
Projection(exprs, input) == [node |-> "Projection", exprs |-> exprs, input |-> input]
Filter(predicate, input) == [node |-> "Filter", predicate |-> predicate, input |-> input]
Sort(exprs, input) == [node |-> "Sort", exprs |-> exprs, input |-> input]
AggregatePlan(group_expr, aggr_expr, input) ==
    [node |-> "Aggregate", group_expr |-> group_expr, aggr_expr |-> aggr_expr,
     input |-> input]
SubqueryAlias(alias, input) == [node |-> "SubqueryAlias", alias |-> alias, input |-> input]
InnerJoin(left, right, on) == [node |-> "Join", left |-> left, right |-> right, on |-> on]
SeriesDivide(tag_columns, input) ==
    [node |-> "SeriesDivide", tag_columns |-> tag_columns, input |-> input]
SeriesNormalize(offset, time_index, need_filter_out_nan, input) ==
    [node |-> "SeriesNormalize", offset |-> offset, time_index |-> time_index,
     need_filter_out_nan |-> need_filter_out_nan, input |-> input]
InstantManipulate(start, end, lookback_delta, interval, time_index, field_column, input) ==
    [node |-> "InstantManipulate", start |-> start, end |-> end,
     lookback_delta |-> lookback_delta, interval |-> interval,
     time_index |-> time_index, field_column |-> field_column, input |-> input]
RangeManipulate(start, end, interval, range, time_index, field_columns, input) ==
    [node |-> "RangeManipulate", start |-> start, end |-> end, interval |-> interval,
     range |-> range, time_index |-> time_index, field_columns |-> field_columns,
     input |-> input]
EmptyMetric(start, end, interval, time_index, field_column) ==
    [node |-> "EmptyMetric", start |-> start, end |-> end, interval |-> interval,
     time_index |-> time_index, field_column |-> field_column]

\* RangeManipulate::build_timestamp_range_name
build_timestamp_range_name(time_index) == time_index \o <<"_range">>

\* LogicalPlan::schema: the fields a plan yields, in order
RECURSIVE Schema(_)
Schema(plan) ==
    IF plan.node = "TableScan"
    THEN LET table == Tables[plan.table_name]
         IN  [i \in 1..Len(table.tags) |-> Field(plan.table_name, table.tags[i])]
             \o <<Field(plan.table_name, table.time_index)>>
             \o [i \in 1..Len(table.fields) |-> Field(plan.table_name, table.fields[i])]
    ELSE IF plan.node = "Projection"
    THEN [i \in 1..Len(plan.exprs) |-> OutputField(Schema(plan.input), plan.exprs[i])]
    ELSE IF plan.node = "Aggregate"
    THEN [i \in 1..Len(plan.group_expr) |->
             OutputField(Schema(plan.input), plan.group_expr[i])]
         \o [i \in 1..Len(plan.aggr_expr) |->
                OutputField(Schema(plan.input), plan.aggr_expr[i])]
    ELSE IF plan.node = "SubqueryAlias"
    THEN [i \in 1..Len(Schema(plan.input)) |->
             Field(plan.alias, Schema(plan.input)[i].name)]
    ELSE IF plan.node = "Join" THEN Schema(plan.left) \o Schema(plan.right)
    ELSE IF plan.node = "RangeManipulate"
    THEN Schema(plan.input)
         \o <<Field(<<>>, build_timestamp_range_name(plan.time_index))>>
    ELSE IF plan.node = "EmptyMetric"
    THEN <<Field(<<>>, plan.time_index), Field(<<>>, plan.field_column)>>
    ELSE Schema(plan.input)
(***************************************************************************)
(* PromPlanner: the context and the translation of an expression of the    *)
(* AST to a logical plan.  A HashSet is iterated in an order that its      *)
(* hasher decides, anew for every set built, so that a translation that    *)
(* iterates over a HashSet it has built is the set of the outcomes of all  *)
(* the orders; the sets the AST holds are given in the order the AST       *)
(* yields them.  An outcome is the plan and the context left behind, or    *)
(* the error.                                                              *)
(***************************************************************************)
\* lines 90-98: PromPlannerContext::from_eval_stmt
from_eval_stmt(s) ==
    [start |-> s.start, end |-> s.end, interval |-> s.interval,
     lookback_delta |-> s.lookback_delta,
     table_name |-> NoName, time_index_column |-> NoName,
     field_columns |-> <<>>, tag_columns |-> <<>>,
     field_column_matcher |-> NoMatchers, range |-> NoMillisecond]

Planned(plan, ctx) == [ok |-> TRUE, err |-> "", plan |-> plan, ctx |-> ctx]
Failed(err, ctx) == [ok |-> FALSE, err |-> err, plan |-> NoPlan, ctx |-> ctx]

\* the orders a HashSet may be iterated in
Orders(S) ==
    {s \in [1..Cardinality(S) -> S] :
        \A i, j \in 1..Cardinality(S) : s[i] = s[j] => i = j}

\* LogicalPlanBuilder: project, filter, sort, aggregate, alias and join refuse
\* expressions that name a column the input lacks; NoPlan stands for the
\* error and is handed on by the steps that follow
Built(plan) == plan.node # "None"

project(input, exprs) ==
    IF Built(input) /\ Resolve(Schema(input), exprs)
    THEN Projection(NormalizeAll(Schema(input), exprs), input) ELSE NoPlan

filter(input, predicate) ==
    IF Built(input) /\ Resolve(Schema(input), <<predicate>>)
    THEN Filter(Normalize(Schema(input), predicate), input) ELSE NoPlan

sort(input, exprs) ==
    IF Built(input) /\ Resolve(Schema(input), exprs)
    THEN Sort(NormalizeAll(Schema(input), exprs), input) ELSE NoPlan

aggregate(input, group_expr, aggr_expr) ==
    IF Built(input) /\ Resolve(Schema(input), group_expr \o aggr_expr)
    THEN AggregatePlan(NormalizeAll(Schema(input), group_expr),
                       NormalizeAll(Schema(input), aggr_expr), input)
    ELSE NoPlan

join(left, right, left_keys, right_keys) ==
    IF /\ Built(left)
       /\ Resolve(Schema(left), left_keys)
       /\ Resolve(Schema(right), right_keys)
    THEN InnerJoin(left, right,
                   [i \in 1..Len(left_keys) |->
                       <<Normalize(Schema(left), left_keys[i]),
                         Normalize(Schema(right), right_keys[i])>>])
    ELSE NoPlan

\* .build().context(DataFusionPlanningSnafu)
build(plan, ctx) ==
    IF Built(plan) THEN Planned(plan, ctx) ELSE Failed("DataFusionPlanning", ctx)

\* utils::conjunction: the expressions joined with AND, from the left
RECURSIVE conjunction(_)
conjunction(exprs) ==
    IF Len(exprs) = 1 THEN exprs[1]
    ELSE BinaryExpr(conjunction(SubSeq(exprs, 1, Len(exprs) - 1)), "AND",
                    exprs[Len(exprs)])

\* lines 406-422: preprocess_label_matchers; the matchers left are a new
\* HashSet, the __field__ matchers are pushed onto those of the context
RECURSIVE preprocess_label_matchers(_, _, _)
preprocess_label_matchers(ctx, matchers, label_matchers) ==
    IF label_matchers = <<>> THEN [ctx |-> ctx, matchers |-> matchers]
    ELSE LET matcher == Head(label_matchers)
         IN  IF matcher.name = METRIC_NAME /\ matcher.op = "Equal"
             THEN preprocess_label_matchers(
                      [ctx EXCEPT !.table_name = SomeName(matcher.value)],
                      matchers, Tail(label_matchers))
             ELSE IF matcher.name = FIELD_COLUMN_MATCHER
             THEN preprocess_label_matchers(
                      [ctx EXCEPT !.field_column_matcher =
                          SomeMatchers(Append(ctx.field_column_matcher.value, matcher))],
                      matchers, Tail(label_matchers))
             ELSE preprocess_label_matchers(ctx, matchers \cup {matcher},
                                            Tail(label_matchers))

\* lines 674-722: setup_context; the error, "" when there is none
setup_context_err(ctx) ==
    IF ~ctx.table_name.some THEN "TableNameNotFound"
    ELSE IF ctx.table_name.value \notin DOMAIN Tables THEN "Catalog"
    ELSE ""

setup_context(ctx) ==
    LET table == Tables[ctx.table_name.value]
    IN  [ctx EXCEPT !.time_index_column = SomeName(table.time_index),
                    !.field_columns = table.fields,
                    !.tag_columns = table.tags]

\* lines 630-653: matchers_to_expr, over the matchers in the order iterated
matchers_to_expr(label_matchers) ==
    [i \in 1..Len(label_matchers) |->
        LET matcher == label_matchers[i]
            col == Column(<<>>, <<matcher.name>>)
            lit == Utf8(Join([j \in 1..Len(matcher.value) |-> <<matcher.value[j]>>],
                             <<"|">>))
        IN  BinaryExpr(col,
                       IF matcher.op = "Equal" THEN "="
                       ELSE IF matcher.op = "NotEqual" THEN "!="
                       ELSE IF matcher.op = "Re" THEN "~" ELSE "!~",
                       lit)]

\* lines 914-921: create_time_index_column_expr, when the time index is set
create_time_index_column_expr(ctx) == Column(<<>>, ctx.time_index_column.value)

\* lines 923-930: create_tag_column_exprs
create_tag_column_exprs(ctx) ==
    [i \in 1..Len(ctx.tag_columns) |-> Column(<<>>, ctx.tag_columns[i])]

\* lines 932-941: create_tag_and_time_index_column_sort_exprs
create_tag_and_time_index_column_sort_exprs(ctx) ==
    [i \in 1..Len(ctx.tag_columns) |->
        SortExpr(Column(<<>>, ctx.tag_columns[i]), FALSE, FALSE)]
    \o <<SortExpr(create_time_index_column_expr(ctx), FALSE, FALSE)>>

\* lines 465-499: the loop over the __field__ matchers;
\* sets = [err, result_set, reverse_set]
RECURSIVE MatchFields(_, _, _)
MatchFields(sets, field_matchers, field_columns) ==
    IF field_matchers = <<>> \/ sets.err # "" THEN sets
    ELSE LET matcher == Head(field_matchers)
             col_set == Range(field_columns)
             matched == {col \in col_set : IsMatch(matcher.value, col)}
         IN  MatchFields(
                 IF matcher.op = "Equal"
                 THEN IF matcher.value \in col_set
                      THEN [sets EXCEPT !.result_set = @ \cup {matcher.value}]
                      ELSE [sets EXCEPT !.err = "ColumnNotFound"]
                 ELSE IF matcher.op = "NotEqual"
                 THEN IF matcher.value \in col_set
                      THEN [sets EXCEPT !.reverse_set = @ \cup {matcher.value}]
                      ELSE [sets EXCEPT !.err = "ValueNotFound"]
                 ELSE IF matcher.op = "Re"
                 THEN [sets EXCEPT !.result_set = @ \cup matched]
                 ELSE [sets EXCEPT !.reverse_set = @ \cup matched],
                 Tail(field_matchers), field_columns)

\* lines 500-507: the two sets merged
Merged(sets, field_columns) ==
    (IF sets.result_set = {} THEN Range(field_columns) ELSE sets.result_set)
        \ sets.reverse_set

\* lines 432-436: the offset of the selector, signed
offset_duration(offset) ==
    IF offset.kind = "Pos" THEN offset.duration
    ELSE IF offset.kind = "Neg" THEN -offset.duration
    ELSE 0

\* line 438: self.ctx.range.unwrap_or_default()
range_ms(ctx) == IF ctx.range.some THEN ctx.range.value ELSE 0

\* lines 439-452: the filters pushed down to the scan, the matchers iterated
\* in the order label_matchers
scan_filters(ctx, offset, label_matchers) ==
    matchers_to_expr(label_matchers)
    \o <<BinaryExpr(create_time_index_column_expr(ctx), ">=",
                    TimestampMillisecond(ctx.start - offset_duration(offset)
                                         - ctx.lookback_delta - range_ms(ctx))),
         BinaryExpr(create_time_index_column_expr(ctx), "<=",
                    TimestampMillisecond(ctx.end - offset_duration(offset)
                                         + ctx.lookback_delta))>>

\* lines 526-558: filter, sort, divide and normalize over the scan
series_normalize(ctx, offset, label_matchers, is_range_selector, table_scan) ==
    LET filtered == IF label_matchers = <<>> THEN table_scan
                    ELSE filter(table_scan, conjunction(matchers_to_expr(label_matchers)))
        sort_plan == sort(filtered, create_tag_and_time_index_column_sort_exprs(ctx))
    IN  IF ~Built(sort_plan) THEN Failed("DataFusionPlanning", ctx)
        ELSE Planned(SeriesNormalize(offset_duration(offset),
                                     ctx.time_index_column.value,
                                     is_range_selector,
                                     SeriesDivide(ctx.tag_columns, sort_plan)),
                     ctx)

\* lines 424-560: selector_to_series_normalize_plan; matchers is the HashSet
\* of preprocess_label_matchers, result_set the HashSet of the fields
selector_to_series_normalize_plan(ctx, offset, matchers, is_range_selector) ==
    UNION {
        LET table_scan == TableScanNode(ctx.table_name.value,
                                        scan_filters(ctx, offset, label_matchers))
        IN  IF ~ctx.field_column_matcher.some
            THEN {series_normalize(ctx, offset, label_matchers, is_range_selector,
                                   table_scan)}
            ELSE LET sets == MatchFields([err |-> "", result_set |-> {},
                                          reverse_set |-> {}],
                                         ctx.field_column_matcher.value,
                                         ctx.field_columns)
                 IN  IF sets.err # "" THEN {Failed(sets.err, ctx)}
                     ELSE {LET projected == [ctx EXCEPT !.field_columns = result_set]
                               exprs == [i \in 1..Len(result_set) |->
                                            Column(<<>>, result_set[i])]
                                        \o create_tag_column_exprs(projected)
                                        \o <<create_time_index_column_expr(projected)>>
                           IN  series_normalize(projected, offset, label_matchers,
                                                is_range_selector,
                                                project(table_scan, exprs))
                           : result_set \in Orders(Merged(sets, ctx.field_columns))}
        : label_matchers \in Orders(matchers)}

\* the order of String over the column names a BTreeSet is asked to order
ColumnNamesInOrder ==
    << <<"field_0">>, <<"field_1">>, <<"tag_0">>, <<"tag_1">>, <<"time">>,
       <<"timestamp">>, <<"timestamp", "_range">>, <<"value">> >>

NameRank(name) ==
    IF name \in Range(ColumnNamesInOrder)
    THEN CHOOSE i \in 1..Len(ColumnNamesInOrder) : ColumnNamesInOrder[i] = name
    ELSE 0

\* BTreeSet<&String>::into_iter: the names in ascending order
RECURSIVE InOrder(_)
InOrder(names) ==
    IF names = {} THEN <<>>
    ELSE LET first == CHOOSE n \in names : \A m \in names : NameRank(n) <= NameRank(m)
         IN  <<first>> \o InOrder(names \ {first})

\* the elements of a sequence that satisfy Keep, in their order
RECURSIVE SelectIn(_, _)
SelectIn(s, keep) ==
    IF s = <<>> THEN <<>>
    ELSE IF Head(s) \in keep THEN <<Head(s)>> \o SelectIn(Tail(s), keep)
    ELSE SelectIn(Tail(s), keep)

\* DFSchema::field_with_unqualified_name(label) is Ok
HasUnqualified(schema, label) ==
    Cardinality({i \in 1..Len(schema) : schema[i].name = label}) = 1

\* a slip in lines 608-610: the field columns are left among the columns
ExcludedKeepsFields(ctx, input_schema, labels) ==
    {input_schema[i].name : i \in 1..Len(input_schema)}
        \ (Range(labels)
            \cup (IF ctx.time_index_column.some
                  THEN {ctx.time_index_column.value} ELSE {}))

\* lines 591-610: all the fields of the input but the labels, the time
\* index and the field columns
Excluded(ctx, input_schema, labels) ==
    {input_schema[i].name : i \in 1..Len(input_schema)}
        \ (Range(labels)
            \cup (IF ctx.time_index_column.some
                  THEN {ctx.time_index_column.value} ELSE {})
            \cup Range(ctx.field_columns))

\* lines 568-627: agg_modifier_to_col, when the time index is set: the
\* grouping expressions and the context with its tag columns changed
agg_modifier_to_col(ctx, input_schema, modifier) ==
    IF modifier.kind = "Include"
    THEN LET existing == {l \in Range(modifier.labels) : HasUnqualified(input_schema, l)}
         IN  [ctx |-> [ctx EXCEPT !.tag_columns = modifier.labels],
              exprs |-> Map(LAMBDA l : Column(<<>>, l), SelectIn(modifier.labels, existing))
                        \o <<create_time_index_column_expr(ctx)>>]
    ELSE LET all_fields == InOrder(Excluded(ctx, input_schema, modifier.labels))
         IN  [ctx |-> [ctx EXCEPT !.tag_columns = all_fields],
              exprs |-> Map(LAMBDA c : Column(<<>>, c), all_fields)
                        \o <<create_time_index_column_expr(ctx)>>]

\* lines 966-983: the aggregate function of the token, "" when there is none
AggregateFunctionOf(op) ==
    IF op = "sum" THEN "SUM"
    ELSE IF op = "avg" THEN "AVG"
    ELSE IF op = "count" THEN "COUNT"
    ELSE IF op = "min" THEN "MIN"
    ELSE IF op = "max" THEN "MAX"
    ELSE IF op = "group" THEN "GROUPING"
    ELSE IF op = "stddev" THEN "STDDEVPOP"
    ELSE IF op = "stdvar" THEN "VARIANCEPOP"
    ELSE ""

\* lines 985-1008: one aggregate for each field column; the field columns
\* of the context become the names of the aggregates over the normalized
\* columns
create_aggregate_exprs(ctx, op, input_plan) ==
    LET exprs == [i \in 1..Len(ctx.field_columns) |->
                     AggregateFunction(AggregateFunctionOf(op),
                                       <<Column(<<>>, ctx.field_columns[i])>>)]
        normalizes == Resolve(Schema(input_plan), exprs)
        normalized_exprs == NormalizeAll(Schema(input_plan), exprs)
    IN  IF AggregateFunctionOf(op) = "" THEN [err |-> "UnsupportedExpr"]
        ELSE IF ~normalizes THEN [err |-> "DataFusionPlanning"]
        ELSE [err |-> "",
              ctx |-> [ctx EXCEPT !.field_columns = Map(DisplayName, normalized_exprs)],
              exprs |-> exprs]

\* lines 144-147: group_sort_expr
GroupSortExpr(group_exprs, aggr_exprs) ==
    Map(LAMBDA e : SortExpr(e, TRUE, FALSE), group_exprs)

\* lines 120-155: PromExpr::Aggregate over the outcome of its input
AggregateOver(input, op, modifier) ==
    IF ~input.ok THEN input
    ELSE IF ~input.ctx.time_index_column.some
    THEN Failed("TimeIndexNotFound", input.ctx)
    ELSE LET group == IF modifier.kind = "None"
                      THEN [ctx |-> input.ctx,
                            exprs |-> <<create_time_index_column_expr(input.ctx)>>]
                      ELSE agg_modifier_to_col(input.ctx, Schema(input.plan), modifier)
             aggr == create_aggregate_exprs(group.ctx, op, input.plan)
         IN  IF aggr.err # "" THEN Failed(aggr.err, group.ctx)
             ELSE build(sort(aggregate(input.plan, group.exprs, aggr.exprs),
                             GroupSortExpr(group.exprs, aggr.exprs)),
                        [aggr.ctx EXCEPT !.time_index_column = NoName])

\* lines 1045-1063: prom_token_to_binary_op, "" for a token not supported
prom_token_to_binary_op(token) ==
    IF token = "+" THEN "+"
    ELSE IF token = "-" THEN "-"
    ELSE IF token = "*" THEN "*"
    ELSE IF token = "/" THEN "/"
    ELSE IF token = "%" THEN "%"
    ELSE IF token = "==" THEN "="
    ELSE IF token = "!=" THEN "!="
    ELSE IF token = ">" THEN ">"
    ELSE IF token = "<" THEN "<"
    ELSE IF token = ">=" THEN ">="
    ELSE IF token = "<=" THEN "<="
    ELSE ""

\* lines 1066-1076: is_token_a_comparison_op
is_token_a_comparison_op(token) == token \in {"==", "!=", ">", "<", ">=", "<="}

\* lines 1013-1043: try_build_literal_expr; None is [some |-> FALSE]
RECURSIVE try_build_literal_expr(_)
try_build_literal_expr(expr) ==
    IF expr.type = "NumberLiteral" THEN [some |-> TRUE, expr |-> Float64(expr.val)]
    ELSE IF expr.type \in {"Paren", "Unary"} THEN try_build_literal_expr(expr.expr)
    ELSE IF expr.type = "Binary"
    THEN LET lhs == try_build_literal_expr(expr.lhs)
             rhs == try_build_literal_expr(expr.rhs)
         IN  IF lhs.some /\ rhs.some /\ prom_token_to_binary_op(expr.op) # ""
             THEN [some |-> TRUE,
                   expr |-> BinaryExpr(lhs.expr, prom_token_to_binary_op(expr.op),
                                       rhs.expr)]
             ELSE [some |-> FALSE]
    ELSE [some |-> FALSE]

\* lines 1120-1169: projection_for_each_field_column; result_field_columns
\* are the expressions name_to_expr has made of the field columns
projection_for_each_field_column(ctx, input, result_field_columns) ==
    LET non_field_columns ==
            Map(LAMBDA col : Column(ctx.table_name.value, col),
                ctx.tag_columns
                \o (IF ctx.time_index_column.some
                    THEN <<ctx.time_index_column.value>> ELSE <<>>))
        field_columns == Map(DisplayName, result_field_columns)
        project_fields ==
            non_field_columns
            \o [i \in 1..Len(result_field_columns) |->
                   Alias(result_field_columns[i], field_columns[i])]
    IN  build(project(input, project_fields),
              [ctx EXCEPT !.field_columns = field_columns])

\* lines 1173-1195: filter_on_field_column; field_column_filter is the
\* expression name_to_expr has made of the one field column
filter_on_field_column(ctx, input, field_column_filter) ==
    build(filter(input, field_column_filter), ctx)

\* lines 1080-1111: join_on_non_field_columns
join_on_non_field_columns(ctx, left, right) ==
    LET tag_columns ==
            Map(LAMBDA col : Column(<<>>, col),
                ctx.tag_columns
                \o (IF ctx.time_index_column.some
                    THEN <<ctx.time_index_column.value>> ELSE <<>>))
    IN  join(SubqueryAlias(<<LEFT_PLAN_JOIN_ALIAS>>, left), right, tag_columns, tag_columns)

\* lines 725-756: create_function_args: the one input and the literals
create_function_args(args) ==
    LET inputs == {i \in 1..Len(args) : args[i].type # "NumberLiteral"}
        literals == SelectIn(args, {NumberLiteral(v) : v \in {args[i].val :
                                       i \in (1..Len(args)) \ inputs}})
    IN  [err |-> IF Cardinality(inputs) > 1 THEN "MultipleVector" ELSE "",
         has_input |-> inputs # {},
         input |-> IF inputs = {} THEN NumberLiteral(0)
                   ELSE args[CHOOSE i \in inputs : \A j \in inputs : i <= j],
         literals |-> Map(LAMBDA l : Float64(l.val), literals)]

\* lines 769-787: the functions over a range the planner knows, and some of
\* DataFusion's BuiltinScalarFunction::from_str
ExtrapolateUdfs == {"increase", "rate", "delta"}
Udfs == {"idelta", "irate", "resets", "changes", "deriv", "avg_over_time",
         "min_over_time", "max_over_time", "sum_over_time", "count_over_time",
         "last_over_time", "absent_over_time", "present_over_time",
         "stddev_over_time", "stdvar_over_time"}
Builtins == {"abs", "ceil", "floor", "exp", "ln", "sqrt"}

\* lines 761-912: create_function_expr: one expression for each field
\* column, aliased to its display name, which becomes the field column
create_function_expr(ctx, func, other_input_exprs) ==
    LET ts_range_expr ==
            Column(<<>>, build_timestamp_range_name(ctx.time_index_column.value))
        fn_expr(value) ==
            LET col_expr == Column(<<>>, value)
            IN  IF func \in Builtins
                THEN ScalarFunction(func, <<col_expr>> \o other_input_exprs)
                ELSE IF func \in Udfs
                THEN ScalarFunction("prom_" \o func,
                                    <<ts_range_expr, col_expr>> \o other_input_exprs)
                ELSE ScalarFunction("prom_" \o func,
                                    <<ts_range_expr, col_expr,
                                      create_time_index_column_expr(ctx)>>
                                    \o other_input_exprs)
        exprs == Map(fn_expr, ctx.field_columns)
        new_field_columns == Map(DisplayName, exprs)
    IN  IF func \notin ExtrapolateUdfs \cup Udfs \cup Builtins
        THEN [err |-> "UnsupportedExpr"]
        ELSE IF func \in ExtrapolateUdfs /\ ~ctx.range.some
        THEN [err |-> "ExpectRangeSelector"]
        ELSE IF /\ func \notin Builtins
                /\ ctx.field_columns # <<>>
                /\ ~ctx.time_index_column.some
        THEN [err |-> "panic"]
        ELSE [err |-> "",
              ctx |-> [ctx EXCEPT !.field_columns = new_field_columns],
              exprs |-> [i \in 1..Len(exprs) |-> Alias(exprs[i], new_field_columns[i])]]

\* lines 943-953: create_empty_values_filter_expr, for some field column
create_empty_values_filter_expr(ctx) ==
    conjunction(Map(LAMBDA value : IsNotNull(Column(<<>>, value)), ctx.field_columns))

\* lines 357-395: PromExpr::Call, but time(), over the outcome of its input
CallOver(input, func, literals) ==
    IF ~input.ok THEN input
    ELSE LET fn == create_function_expr(input.ctx, func, literals)
         IN  IF fn.err # "" THEN Failed(fn.err, input.ctx)
             ELSE IF ~fn.ctx.time_index_column.some
             THEN Failed("TimeIndexNotFound", fn.ctx)
             ELSE LET func_exprs == <<create_time_index_column_expr(fn.ctx)>>
                                    \o fn.exprs
                                    \o create_tag_column_exprs(fn.ctx)
                      projection == project(input.plan, func_exprs)
                  IN  IF ~Built(projection) THEN Failed("DataFusionPlanning", fn.ctx)
                      ELSE IF fn.ctx.field_columns = <<>>
                      THEN Failed("ValueNotFound", fn.ctx)
                      ELSE build(filter(projection,
                                        create_empty_values_filter_expr(fn.ctx)),
                                 fn.ctx)

\* lines 358-376: time()
TimeCall(ctx) ==
    Planned(EmptyMetric(ctx.start, ctx.end, ctx.interval,
                        <<SPECIAL_TIME_FUNCTION>>, <<DEFAULT_FIELD_COLUMN>>),
            [ctx EXCEPT !.time_index_column = SomeName(<<SPECIAL_TIME_FUNCTION>>),
                        !.field_columns = << <<DEFAULT_FIELD_COLUMN>> >>,
                        !.table_name = SomeName(<<"">>)])

\* lines 156-162: PromExpr::Unary over the outcome of its input
UnaryOver(input) ==
    IF ~input.ok THEN input
    ELSE projection_for_each_field_column(
             input.ctx, input.plan,
             Map(LAMBDA col : Negative(Column(<<>>, col)), input.ctx.field_columns))

\* a slip in lines 210 and 232: the modifier bool is not consulted
IsFilterIgnoresBool(is_comparison_op, should_return_bool) == is_comparison_op

\* lines 210, 232 and 273: a filter is built, not a projection
IsFilter(is_comparison_op, should_return_bool) ==
    is_comparison_op /\ ~should_return_bool

\* lines 203-208: the comparison that returns 0 or 1 is cast to Float64
CastWhenBool(binary_expr, is_comparison_op, should_return_bool) ==
    IF is_comparison_op /\ should_return_bool
    THEN Cast(binary_expr, "Float64") ELSE binary_expr

\* the filter or the projection of lines 209-213, 231-235 and 273-277 over
\* the expressions the closure makes of the field columns
FilterOrProjection(ctx, input, op, should_return_bool, exprs) ==
    IF IsFilter(is_token_a_comparison_op(op), should_return_bool)
    THEN IF Len(ctx.field_columns) # 1 THEN Failed("UnsupportedExpr", ctx)
         ELSE IF exprs.err # "" THEN Failed(exprs.err, ctx)
         ELSE filter_on_field_column(ctx, input, exprs.exprs[1])
    ELSE IF exprs.err # "" THEN Failed(exprs.err, ctx)
    ELSE projection_for_each_field_column(ctx, input, exprs.exprs)

\* lines 195-235: a literal on one side, the outcome of the vector side on
\* the other
BinaryLiteralOver(input, literal, literal_is_lhs, op, should_return_bool) ==
    IF ~input.ok THEN input
    ELSE LET bin_expr_builder(col) ==
                 CastWhenBool(
                     IF literal_is_lhs
                     THEN BinaryExpr(literal, prom_token_to_binary_op(op),
                                     Column(<<>>, col))
                     ELSE BinaryExpr(Column(<<>>, col), prom_token_to_binary_op(op),
                                     literal),
                     is_token_a_comparison_op(op), should_return_bool)
         IN  FilterOrProjection(
                 input.ctx, input.plan, op, should_return_bool,
                 [err |-> IF prom_token_to_binary_op(op) = ""
                             /\ input.ctx.field_columns # <<>>
                          THEN "UnexpectedToken" ELSE "",
                  exprs |-> Map(bin_expr_builder, input.ctx.field_columns)])

\* lines 236-278: both sides are vectors, joined on the tag columns and the
\* time index the context holds after the right side
BinaryOver(left, right, op, should_return_bool) ==
    IF ~right.ok THEN right
    ELSE LET ctx == right.ctx
             left_field_columns == left.ctx.field_columns
             right_field_columns == right.ctx.field_columns
             left_schema == Schema(left.plan)
             right_schema == Schema(right.plan)
             zipped == Min(Len(left_field_columns), Len(right_field_columns))
             called == IF IsFilter(is_token_a_comparison_op(op), should_return_bool)
                       THEN 1 ELSE Len(ctx.field_columns)
             join_plan == join_on_non_field_columns(ctx, left.plan, right.plan)
             qualified_column(schema, name) ==
                 LET field == schema[CHOOSE i \in 1..Len(schema) : schema[i].name = name]
                 IN  Column(field.relation, field.name)
             bin_expr_builder(i) ==
                 CastWhenBool(
                     BinaryExpr(qualified_column(left_schema, left_field_columns[i]),
                                prom_token_to_binary_op(op),
                                qualified_column(right_schema, right_field_columns[i])),
                     is_token_a_comparison_op(op), should_return_bool)
             err == IF called > zipped THEN "panic"
                    ELSE IF \E i \in 1..called :
                               \/ ~HasUnqualified(left_schema, left_field_columns[i])
                               \/ ~HasUnqualified(right_schema, right_field_columns[i])
                    THEN "DataFusionPlanning"
                    ELSE IF prom_token_to_binary_op(op) = "" /\ called > 0
                    THEN "UnexpectedToken"
                    ELSE ""
         IN  IF ~Built(join_plan) THEN Failed("DataFusionPlanning", ctx)
             ELSE FilterOrProjection(
                      ctx, join_plan, op, should_return_bool,
                      [err |-> err,
                       exprs |-> IF err # "" THEN <<>>
                                 ELSE [i \in 1..called |-> bin_expr_builder(i)]])

\* lines 294-320 and 321-356: a selector; range is None for a VectorSelector
SelectorOver(ctx, selector, range) ==
    LET preprocessed == preprocess_label_matchers(ctx, {}, selector.matchers)
        err == setup_context_err(preprocessed.ctx)
        set_up == setup_context(preprocessed.ctx)
        with_range == IF range.some THEN [set_up EXCEPT !.range = range] ELSE set_up
    IN  IF err # "" THEN {Failed(err, preprocessed.ctx)}
        ELSE IF range.some /\ range.value = 0 THEN {Failed("ZeroRangeSelector", set_up)}
        ELSE {IF ~normalize.ok THEN normalize
              ELSE IF range.some
              THEN Planned(RangeManipulate(normalize.ctx.start, normalize.ctx.end,
                                           normalize.ctx.interval, range.value,
                                           normalize.ctx.time_index_column.value,
                                           normalize.ctx.field_columns,
                                           normalize.plan),
                           normalize.ctx)
              ELSE Planned(InstantManipulate(normalize.ctx.start, normalize.ctx.end,
                                             normalize.ctx.lookback_delta,
                                             normalize.ctx.interval,
                                             normalize.ctx.time_index_column.value,
                                             IF normalize.ctx.field_columns = <<>>
                                             THEN NoName
                                             ELSE SomeName(normalize.ctx.field_columns[1]),
                                             normalize.plan),
                           normalize.ctx)
              : normalize \in selector_to_series_normalize_plan(
                                  with_range, selector.offset, preprocessed.matchers,
                                  range.some)}

\* lines 118-402: prom_expr_to_plan: the outcomes of translating prom_expr
\* with the context ctx
RECURSIVE prom_expr_to_plan(_, _)
prom_expr_to_plan(ctx, prom_expr) ==
    IF prom_expr.type = "Aggregate"
    THEN {AggregateOver(input, prom_expr.op, prom_expr.modifier) :
             input \in prom_expr_to_plan(ctx, prom_expr.expr)}
    ELSE IF prom_expr.type = "Unary"
    THEN {UnaryOver(input) : input \in prom_expr_to_plan(ctx, prom_expr.expr)}
    ELSE IF prom_expr.type = "Binary"
    THEN LET lhs == try_build_literal_expr(prom_expr.lhs)
             rhs == try_build_literal_expr(prom_expr.rhs)
         IN  IF lhs.some /\ rhs.some THEN {Failed("UnsupportedExpr", ctx)}
             ELSE IF lhs.some
             THEN {BinaryLiteralOver(input, lhs.expr, TRUE, prom_expr.op,
                                     prom_expr.return_bool) :
                      input \in prom_expr_to_plan(ctx, prom_expr.rhs)}
             ELSE IF rhs.some
             THEN {BinaryLiteralOver(input, rhs.expr, FALSE, prom_expr.op,
                                     prom_expr.return_bool) :
                      input \in prom_expr_to_plan(ctx, prom_expr.lhs)}
             ELSE UNION {IF ~left.ok THEN {left}
                         ELSE {BinaryOver(left, right, prom_expr.op,
                                          prom_expr.return_bool) :
                                  right \in prom_expr_to_plan(left.ctx, prom_expr.rhs)}
                         : left \in prom_expr_to_plan(ctx, prom_expr.lhs)}
    ELSE IF prom_expr.type = "Paren" THEN prom_expr_to_plan(ctx, prom_expr.expr)
    ELSE IF prom_expr.type = "NumberLiteral" THEN {Failed("UnsupportedExpr", ctx)}
    ELSE IF prom_expr.type = "VectorSelector"
    THEN SelectorOver(ctx, prom_expr, NoMillisecond)
    ELSE IF prom_expr.type = "MatrixSelector"
    THEN SelectorOver(ctx, prom_expr.vector_selector, SomeMillisecond(prom_expr.range))
    ELSE IF prom_expr.func = SPECIAL_TIME_FUNCTION THEN {TimeCall(ctx)}
    ELSE LET args == create_function_args(prom_expr.args)
         IN  IF args.err # "" THEN {Failed(args.err, ctx)}
             ELSE IF ~args.has_input THEN {Failed("ExpectExpr", ctx)}
             ELSE {CallOver(input, prom_expr.func, args.literals) :
                      input \in prom_expr_to_plan(ctx, args.input)}

\* lines 106-116: stmt_to_plan
stmt_to_plan(s) == prom_expr_to_plan(from_eval_stmt(s), s.expr)

(***************************************************************************)
(* The statements planned: selectors over the two tables, with label       *)
(* matchers, __field__ matchers and offsets, and the expressions built of  *)
(* them.  A statement is planned MaxRuns times; every run iterates the     *)
(* HashSets it builds in an order of its own.                              *)
(***************************************************************************)
MaxRuns == 2

Name(table) == Matcher("Equal", METRIC_NAME, <<table>>)

some_metric == VectorSelector(<<Name("some_metric")>>, NoOffset)
up == VectorSelector(<<Name("up")>>, NoOffset)

VectorSelectors ==
    {some_metric, up,
     VectorSelector(<<Name("some_metric"), Matcher("NotEqual", "tag_0", <<"bar">>)>>,
                    NoOffset),
     VectorSelector(<<Name("some_metric"), Matcher("Equal", "tag_0", <<"a">>),
                      Matcher("Re", "tag_1", <<"b", "c">>)>>, NoOffset),
     VectorSelector(<<Name("some_metric"),
                      Matcher("Equal", FIELD_COLUMN_MATCHER, <<"field_0">>)>>, NoOffset),
     VectorSelector(<<Name("some_metric"),
                      Matcher("NotEqual", FIELD_COLUMN_MATCHER, <<"field_0">>)>>, NoOffset),
     VectorSelector(<<Name("some_metric"),
                      Matcher("Re", FIELD_COLUMN_MATCHER, <<"field_0", "field_1">>)>>,
                    NoOffset),
     VectorSelector(<<Name("some_metric"),
                      Matcher("NotRe", FIELD_COLUMN_MATCHER, <<"field_1">>)>>, NoOffset),
     VectorSelector(<<Name("some_metric"),
                      Matcher("Equal", FIELD_COLUMN_MATCHER, <<"field_9">>)>>, NoOffset),
     VectorSelector(<<Name("some_metric"),
                      Matcher("NotEqual", FIELD_COLUMN_MATCHER, <<"field_9">>)>>, NoOffset),
     VectorSelector(<<Name("some_metric")>>, Pos(60000)),
     VectorSelector(<<Name("up"), Matcher("Equal", "tag_0", <<"a">>)>>, Neg(60000)),
     VectorSelector(<<Name("nothing")>>, NoOffset),
     VectorSelector(<<Matcher("Equal", "tag_0", <<"a">>)>>, NoOffset)}

MatrixSelectors ==
    {MatrixSelector(some_metric, 300000),
     MatrixSelector(up, 300000),
     MatrixSelector(VectorSelector(<<Name("up")>>, Pos(60000)), 120000),
     MatrixSelector(up, 0)}

Selectors == VectorSelectors \cup MatrixSelectors

Modifiers ==
    {NoModifier,
     Include(<< <<"tag_1">> >>),
     Include(<< <<"tag_9">>, <<"tag_0">> >>),
     Exclude(<< <<"tag_1">> >>),
     Exclude(<< <<"tag_9">> >>)}

\* an operation over one vector
OverOne(e) ==
    {Unary(e), Paren(e)}
    \cup {Binary(NumberLiteral(1), op, return_bool, e) :
             op \in {"+", ">", "^"}, return_bool \in BOOLEAN}
    \cup {Binary(e, op, return_bool, NumberLiteral(2)) :
             op \in {"*", "==", "<="}, return_bool \in BOOLEAN}
    \cup {Aggregate(op, modifier, e) : op \in {"sum", "topk"}, modifier \in Modifiers}
    \cup {Call(func, <<e>>) : func \in {"rate", "abs", "count_over_time", "sgn"}}

\* an operation over two vectors
OverTwo(l, r) ==
    {Binary(l, op, return_bool, r) : op \in {"+", ">"}, return_bool \in BOOLEAN}

Exprs ==
    Selectors
    \cup {NumberLiteral(1), Binary(NumberLiteral(1), "+", FALSE, NumberLiteral(2)),
          Call(SPECIAL_TIME_FUNCTION, <<>>),
          Call("abs", <<up, some_metric>>), Call("abs", <<NumberLiteral(1)>>)}
    \cup UNION {OverOne(e) : e \in Selectors}
    \cup UNION {OverTwo(l, r) : l, r \in Selectors}
    \cup UNION {OverOne(e) : e \in OverOne(up) \cup OverOne(some_metric)
                                   \cup OverOne(MatrixSelector(up, 300000))}
    \cup UNION {OverTwo(l, r) : l \in OverOne(MatrixSelector(up, 300000)),
                                r \in {up, some_metric}}

\* the evaluation windows, in milliseconds
Windows ==
    {[start |-> 0, end |-> 100000000, interval |-> 5000, lookback_delta |-> 1000],
     [start |-> 600000, end |-> 900000, interval |-> 15000, lookback_delta |-> 300000]}

Stmts ==
    {EvalStmt(expr, w.start, w.end, w.interval, w.lookback_delta) :
        expr \in Exprs, w \in Windows}

PlannerInit ==
    /\ InitRegionAndTable
    /\ InitOptions
    /\ stmt \in Stmts
    /\ plans = <<>>

\* lines 106-116: PromPlanner::stmt_to_plan(table_provider, stmt), once more
PlanStmt ==
    /\ stmt.some
    /\ Len(plans) < MaxRuns
    /\ \E planned \in stmt_to_plan(stmt) : plans' = Append(plans, planned)
    /\ UNCHANGED <<stmt, region_vars, table_vars, options_vars>>

PlannerNext == PlanStmt

PlannerSpec == PlannerInit /\ [][PlannerNext]_vars

(***************************************************************************)
(* Recovery (replay): seed a builder from a checkpoint, apply the action   *)
(* lists that follow it as the checkpointer applies them.                  *)
(***************************************************************************)
Recover(checkpoint, entries) ==
    LET st == FoldScan([manifest_builder |-> checkpoint.checkpoint,
                        protocol |-> checkpoint.protocol,
                        failed |-> FALSE,
                        last_version |-> checkpoint.last_version,
                        compacted_actions |-> 0],
                       entries)
    IN  [data |-> st.manifest_builder, protocol |-> st.protocol, failed |-> st.failed]

(***************************************************************************)
(* What the properties speak of.                                           *)
(***************************************************************************)
\* the committed action lists of the versions from..to, as scan entries
CommittedEntries(from, to) ==
    LET hi == Min(to, MIN_VERSION + Len(committed) - 1)
    IN  IF hi < from THEN <<>>
        ELSE [i \in 1..(hi - from + 1) |->
                <<from + i - 1, committed[from + i - MIN_VERSION]>>]

\* the versions an update has committed
CommittedVersions == {MIN_VERSION + i - 1 : i \in 1..Len(committed)}

HasRemove(action_list) == \E i \in 1..Len(action_list) : action_list[i].kind = "Remove"

NoRemoveCommitted == \A i \in 1..Len(committed) : ~HasRemove(committed[i])

\* the checkpoints published so far
Published == {checkpoints[v] : v \in DOMAIN checkpoints}

\* the versions a scan yields
ScanVersions(start, end) == {Scan(start, end)[i][1] : i \in 1..Len(Scan(start, end))}

(***************************************************************************)
(* C1.  Replay from a checkpoint equals replay from MIN_VERSION.  With     *)
(* only Change, Edit and Protocol actions appended: recovery seeded from   *)
(* the latest checkpoint over the log objects the store still holds above  *)
(* its last_version, and recovery seeded from any published checkpoint     *)
(* over the committed lists above its last_version, both yield the         *)
(* RegionManifestData and the protocol that applying every committed       *)
(* version from MIN_VERSION to an empty builder yields.                    *)
(***************************************************************************)
ReplayFromStart == Recover(NoCheckpoint, CommittedEntries(MIN_VERSION, MAX_VERSION))

C1_ReplayEquivalence ==
    NoRemoveCommitted =>
        LET from_start == ReplayFromStart
        IN  /\ last_checkpoint.some =>
                   Recover(last_checkpoint,
                           Scan(last_checkpoint.last_version + 1, MAX_VERSION)) = from_start
            /\ \A c \in Published :
                   Recover(c, CommittedEntries(c.last_version + 1, MAX_VERSION)) = from_start

\* two checkpoints published, the latest holds files and a metadata change,
\* and committed versions follow it
C1_Witness ==
    /\ NoRemoveCommitted
    /\ Cardinality(DOMAIN checkpoints) >= 2
    /\ last_checkpoint.some
    /\ last_checkpoint.checkpoint.version.some
    /\ last_checkpoint.checkpoint.metadata # DefaultMetadata
    /\ last_checkpoint.last_version + 1 < version
    /\ ReplayFromStart.data # last_checkpoint.checkpoint

(***************************************************************************)
(* C2.  A checkpoint never passes the flushed manifest version.  The       *)
(* checkpoint a call publishes has last_version <= the flushed manifest    *)
(* version the call read and is a committed version; the log objects a     *)
(* call deletes have versions <= that flushed manifest version and <= the  *)
(* last_version of the checkpoint it saved.                                *)
(***************************************************************************)
C2_CheckpointWithinFlushed ==
    [][ /\ last_checkpoint' # last_checkpoint =>
              /\ last_checkpoint'.last_version <= ck.flushed
              /\ last_checkpoint'.last_version <= LastVersion
              /\ last_checkpoint'.last_version \in CommittedVersions
        /\ \A v \in DOMAIN logs \ DOMAIN logs' :
              /\ v <= ck.flushed
              /\ v <= last_checkpoint.last_version ]_vars

\* a checkpoint was saved while committed versions above the flushed
\* manifest version existed
C2_Witness ==
    /\ ck.pc = "delete"
    /\ ck.flushed < ck.current_version
    /\ last_checkpoint.last_version = ck.flushed
    /\ ck.flushed >= MIN_VERSION + 1

(***************************************************************************)
(* C3.  The order of the three versions.  As claimed:                      *)
(* flushed_manifest_version <= last_checkpoint.last_version <= last_version *)
(* whenever a checkpoint is published.                                     *)
(***************************************************************************)
C3_AsClaimed ==
    last_checkpoint.some =>
        /\ flushed_manifest_version <= last_checkpoint.last_version
        /\ last_checkpoint.last_version <= LastVersion

(***************************************************************************)
(* C3, amended.  last_checkpoint.last_version <= last_version in every     *)
(* state, and when a call has just saved its checkpoint, the checkpoint's  *)
(* last_version <= the flushed manifest version the call read: the         *)
(* checkpoint is below the flushed manifest version, not above it.         *)
(***************************************************************************)
C3_CheckpointBelowBoth ==
    last_checkpoint.some =>
        /\ last_checkpoint.last_version <= LastVersion
        /\ ck.pc = "delete" => last_checkpoint.last_version <= ck.flushed

\* a checkpoint strictly below the flushed manifest version and the last version
C3_Witness ==
    /\ ck.pc = "delete"
    /\ last_checkpoint.some
    /\ last_checkpoint.last_version < flushed_manifest_version
    /\ last_checkpoint.last_version < LastVersion

(***************************************************************************)
(* C4.  Dense versions.  As claimed: the k-th update gets version          *)
(* MIN_VERSION + k - 1, and a full scan yields consecutive versions, each  *)
(* the first yielded version plus the number yielded before it.            *)
(***************************************************************************)
\* the step is the k-th update and stores its list at MIN_VERSION + k - 1
KthUpdateGetsKthVersion ==
    Len(committed') = Len(committed) + 1 =>
        /\ DOMAIN logs' \ DOMAIN logs = {MIN_VERSION + Len(committed') - 1}
        /\ logs'[MIN_VERSION + Len(committed') - 1] = committed'[Len(committed')]
        /\ version' = MIN_VERSION + Len(committed')

\* assert_scan: v = start_version + actions for every yielded version
Consecutive(entries) == \A i \in 1..Len(entries) : entries[i][1] = entries[1][1] + i - 1

StrictlyAscending(entries) ==
    \A i \in 1..(Len(entries) - 1) : entries[i][1] < entries[i + 1][1]

C4_AsClaimed ==
    /\ version = MIN_VERSION + Len(committed)
    /\ Consecutive(Scan(MIN_VERSION, MAX_VERSION))

(***************************************************************************)
(* C4, amended.  The k-th update gets version MIN_VERSION + k - 1 and the  *)
(* counter moves by one; a full scan yields strictly ascending versions,   *)
(* and the versions above the latest checkpoint's last_version are         *)
(* consecutive up to the last committed one.  (Below them a full scan may  *)
(* show a gap: log objects a failed deletion left behind.)                 *)
(***************************************************************************)
AfterCheckpoint == IF last_checkpoint.some THEN last_checkpoint.last_version + 1 ELSE MIN_VERSION

C4_DenseVersions ==
    /\ [](/\ version = MIN_VERSION + Len(committed)
          /\ StrictlyAscending(Scan(MIN_VERSION, MAX_VERSION))
          /\ Consecutive(Scan(AfterCheckpoint, MAX_VERSION))
          /\ ScanVersions(AfterCheckpoint, MAX_VERSION)
                = {v \in CommittedVersions : v >= AfterCheckpoint})
    /\ [][KthUpdateGetsKthVersion]_vars

\* three updates, and a full scan that shows a gap below the checkpoint
C4_Witness ==
    /\ Len(committed) = 3
    /\ last_checkpoint.some
    /\ ~Consecutive(Scan(MIN_VERSION, MAX_VERSION))
    /\ Len(Scan(AfterCheckpoint, MAX_VERSION)) >= 1

(***************************************************************************)
(* C5.  What a scan yields.  As claimed: scan(from, to) yields every       *)
(* committed version of [from, min(to, last_version + 1)) with its action  *)
(* list, ascending.                                                        *)
(***************************************************************************)
ScanBounds == MIN_VERSION..(MIN_VERSION + MaxUpdates)

\* every yielded pair is a committed version with the list committed at it
YieldsCommittedLists(entries) ==
    \A i \in 1..Len(entries) :
        /\ entries[i][1] >= MIN_VERSION
        /\ entries[i][1] - MIN_VERSION + 1 <= Len(committed)
        /\ entries[i][2] = committed[entries[i][1] - MIN_VERSION + 1]

VersionsOf(entries) == {entries[i][1] : i \in 1..Len(entries)}

\* the pairs from < to a scan is asked for
ScanRanges == {r \in ScanBounds \X (ScanBounds \cup {MAX_VERSION}) : r[1] < r[2]}

C5_AsClaimed ==
    LET all  == CommittedVersions
        last == LastVersion
    IN  \A r \in ScanRanges :
            LET entries == Scan(r[1], r[2])
            IN  /\ VersionsOf(entries)
                      = {v \in all : r[1] <= v /\ v < Min(r[2], last + 1)}
                /\ StrictlyAscending(entries)
                /\ YieldsCommittedLists(entries)

(***************************************************************************)
(* C5, amended.  scan(from, to) yields, ascending and each with the list   *)
(* committed at it, every committed version of [from, min(to,              *)
(* last_version + 1)) that is above the latest checkpoint's last_version;  *)
(* of the versions at or below it, it yields those whose log object a      *)
(* checkpoint has not deleted (yet).                                       *)
(***************************************************************************)
C5_ScanYieldsUncompacted ==
    LET all   == CommittedVersions
        last  == LastVersion
        after == AfterCheckpoint
    IN  \A r \in ScanRanges :
            LET entries == Scan(r[1], r[2])
                yielded == VersionsOf(entries)
                asked   == {v \in all : r[1] <= v /\ v < Min(r[2], last + 1)}
            IN  /\ {v \in asked : v >= after} \subseteq yielded
                /\ yielded \subseteq asked
                /\ StrictlyAscending(entries)
                /\ YieldsCommittedLists(entries)

\* a checkpoint has deleted log objects, two committed versions follow it
C5_Witness ==
    /\ last_checkpoint.some
    /\ ck.ret = "some"
    /\ ScanVersions(MIN_VERSION, MAX_VERSION) # CommittedVersions
    /\ Len(Scan(AfterCheckpoint, MAX_VERSION)) >= 2

(***************************************************************************)
(* C6.  The log after a checkpoint.  As claimed: when do_checkpoint has    *)
(* returned a checkpoint with last_version L and its deletion succeeded, a *)
(* full scan yields exactly the committed versions greater than L.         *)
(***************************************************************************)
ReturnedCheckpoint == ck.pc = "idle" /\ ck.ret = "some"

C6_AsClaimed ==
    (ReturnedCheckpoint /\ ~ck.delete_failed) =>
        ScanVersions(MIN_VERSION, MAX_VERSION)
            = {v \in CommittedVersions : v > last_checkpoint.last_version}

(***************************************************************************)
(* C6, amended.  When do_checkpoint has returned a checkpoint with         *)
(* last_version L and its deletion succeeded, a full scan yields every     *)
(* committed version greater than L and no version of                      *)
(* [start_version, L], the range the call folded; a version below          *)
(* start_version is yielded when the failed deletion of an earlier call    *)
(* left its log object behind.                                             *)
(***************************************************************************)
C6_FoldedRangeDeleted ==
    (ReturnedCheckpoint /\ ~ck.delete_failed) =>
        /\ {v \in ScanVersions(MIN_VERSION, MAX_VERSION) : v >= ck.start_version}
              = {v \in CommittedVersions : v > last_checkpoint.last_version}
        /\ ck.start_version = last_checkpoint.last_version
                                 - last_checkpoint.compacted_actions + 1

\* a checkpoint whose deletion succeeded, returned while a log object that
\* an earlier call failed to delete is still there, and a committed version
\* follows the checkpoint
C6_Witness ==
    /\ ReturnedCheckpoint /\ ~ck.delete_failed
    /\ \E v \in ScanVersions(MIN_VERSION, MAX_VERSION) : v < ck.start_version
    /\ \E v \in ScanVersions(MIN_VERSION, MAX_VERSION) : v > last_checkpoint.last_version

(***************************************************************************)
(* C7.  last_version advances by compacted_actions.  The step that         *)
(* publishes a checkpoint makes last_checkpoint().last_version the         *)
(* last_version of the checkpoint published before it (MIN_VERSION - 1     *)
(* when there was none) plus the new compacted_actions, and                *)
(* compacted_actions is the number of action lists folded, whatever the    *)
(* number of actions in them.                                              *)
(***************************************************************************)
PreviousLastVersion ==
    IF last_checkpoint.some THEN last_checkpoint.last_version ELSE MIN_VERSION - 1

C7_LastVersionAdvance ==
    [][ last_checkpoint' # last_checkpoint =>
          /\ last_checkpoint'.some
          /\ last_checkpoint'.compacted_actions >= 1
          /\ last_checkpoint'.last_version
                = PreviousLastVersion + last_checkpoint'.compacted_actions
          /\ last_checkpoint'.compacted_actions
                = Cardinality({v \in CommittedVersions :
                                 /\ v > PreviousLastVersion
                                 /\ v <= last_checkpoint'.last_version}) ]_vars

\* a second checkpoint just saved, over one action list of two actions
C7_Witness ==
    /\ ck.pc = "delete"
    /\ Cardinality(DOMAIN checkpoints) >= 2
    /\ last_checkpoint.compacted_actions = 1
    /\ Len(committed[last_checkpoint.last_version - MIN_VERSION + 1]) = 2

(***************************************************************************)
(* C8.  The flushed manifest version never decreases: no step lowers the   *)
(* stored flushed_manifest_version, a setter call with a smaller value     *)
(* included.                                                               *)
(***************************************************************************)
C8_FlushedNeverDecreases ==
    [][flushed_manifest_version' >= flushed_manifest_version]_vars

(***************************************************************************)
(* C9.  do_checkpoint is a no-op when nothing is eligible.  A call that    *)
(* finds last_checkpoint.last_version + 1 >= min(current_version,          *)
(* flushed_manifest_version) + 1 returns None at once; a call whose scan   *)
(* yields no action list returns None; a step that returns None leaves the *)
(* log objects, the checkpoint objects and last_checkpoint() as they were; *)
(* and when a call returns a checkpoint and neither the last version nor   *)
(* the flushed manifest version has moved since it read them, nothing is   *)
(* eligible, so the call that follows returns None.                        *)
(***************************************************************************)
NothingEligible ==
    PreviousLastVersion + 1 >= Min(LastVersion, flushed_manifest_version) + 1

ReturnsNone == ck'.pc = "idle" /\ ck'.ret = "none"

C9_NoOpWhenNothingEligible ==
    [][ /\ (ck.pc = "idle" /\ ck' # ck /\ NothingEligible) => ReturnsNone
        /\ (/\ ck.pc = "scan" /\ ck' # ck
            /\ ScanVersions(ck.start_version, ck.end_version) = {}) => ReturnsNone
        /\ (ck' # ck /\ ReturnsNone) =>
               /\ logs' = logs
               /\ checkpoints' = checkpoints
               /\ last_checkpoint' = last_checkpoint
        /\ (/\ ck.pc = "delete" /\ ck'.ret = "some"
            /\ LastVersion = ck.current_version
            /\ flushed_manifest_version = ck.flushed) => NothingEligible' ]_vars

\* a call right after a published checkpoint that folded everything
\* committed has returned None, and the checkpoint is still the latest
C9_Witness ==
    /\ ck.pc = "idle" /\ ck.ret = "none"
    /\ last_checkpoint.some
    /\ last_checkpoint.last_version = LastVersion
    /\ last_checkpoint.last_version >= MIN_VERSION + 1
    /\ ck.start_version = last_checkpoint.last_version + 1
    /\ ScanVersions(MIN_VERSION, MAX_VERSION) = {}

(***************************************************************************)
(* C10.  What a checkpoint holds.  For every published checkpoint with     *)
(* last_version L, over the actions committed at the versions              *)
(* MIN_VERSION..L in log order: region_version.manifest_version is the     *)
(* version of the last action list with an Edit (a Change folded after it  *)
(* leaves it alone) and flushed_sequence that of the last Edit; the        *)
(* version record is None when no Edit was folded; committed_sequence and  *)
(* metadata are those of the last Change (every region starts with one);   *)
(* the file set holds the files an                                         *)
(* Edit added and neither that Edit nor a later one removed; the protocol  *)
(* is that of the last Protocol action.                                    *)
(***************************************************************************)
\* the places <<version, index in its action list>> of the actions up to L
Places(L) ==
    UNION { { <<v, i>> : i \in 1..Len(committed[v - MIN_VERSION + 1]) } :
            v \in MIN_VERSION..L }

ActionAt(p) == committed[p[1] - MIN_VERSION + 1][p[2]]

Before(p, q) == p[1] < q[1] \/ (p[1] = q[1] /\ p[2] < q[2])

\* the last place of a set of places in log order
IsLastIn(p, places) == \A q \in places : ~Before(p, q)

HoldsFoldOf(c) ==
    LET d         == c.checkpoint
        places    == Places(c.last_version)
        edits     == {p \in places : ActionAt(p).kind = "Edit"}
        changes   == {p \in places : ActionAt(p).kind = "Change"}
        protocols == {p \in places : ActionAt(p).kind = "Protocol"}
        live      == {f \in FileIds :
                        \E p \in edits :
                            /\ f \in ActionAt(p).files_to_add \ ActionAt(p).files_to_remove
                            /\ \A q \in edits :
                                   Before(p, q) => f \notin ActionAt(q).files_to_remove}
    IN  /\ d.version.some <=> edits # {}
        /\ \A p \in edits :
               IsLastIn(p, edits) =>
                   /\ d.version.manifest_version = p[1]
                   /\ d.version.flushed_sequence = ActionAt(p).flushed_sequence
        /\ d.version.files = live
        /\ changes # {}
        /\ \A p \in changes :
               IsLastIn(p, changes) =>
                   /\ d.metadata = ActionAt(p).metadata
                   /\ d.committed_sequence = ActionAt(p).committed_sequence
        /\ \A p \in protocols :
               IsLastIn(p, protocols) => c.protocol = ActionAt(p).protocol

C10_CheckpointHoldsFold ==
    \A c \in Published \cup (IF last_checkpoint.some THEN {last_checkpoint} ELSE {}) :
        HoldsFoldOf(c)

\* two checkpoints: the first folded an Edit that left a file, the second
\* folded a Change after it and kept the Edit's manifest_version
C10_Witness ==
    /\ Cardinality(DOMAIN checkpoints) >= 2
    /\ last_checkpoint.some
    /\ last_checkpoint.checkpoint.version.some
    /\ last_checkpoint.checkpoint.version.manifest_version < last_checkpoint.last_version
    /\ last_checkpoint.checkpoint.version.manifest_version > MIN_VERSION
    /\ last_checkpoint.checkpoint.version.files # {}
    /\ last_checkpoint.checkpoint.metadata # DefaultMetadata
    /\ committed[last_checkpoint.last_version - MIN_VERSION + 1]
           \in { <<Change(1, 1)>>, <<Protocol(1), Change(2, 2)>> }

(***************************************************************************)
(* C11.  The live file set.  As claimed: after any Edits, an identifier    *)
(* an Edit removed is never in the live set again: in every checkpoint, no *)
(* live file is listed in files_to_remove of a folded Edit.                *)
(***************************************************************************)
\* the places of the Edits folded into checkpoint c
EditsOf(c) == {p \in Places(c.last_version) : ActionAt(p).kind = "Edit"}

AllCheckpoints == Published \cup (IF last_checkpoint.some THEN {last_checkpoint} ELSE {})

C11_AsClaimed ==
    \A c \in AllCheckpoints :
        \A f \in c.checkpoint.version.files :
            \A p \in EditsOf(c) : f \notin ActionAt(p).files_to_remove

(***************************************************************************)
(* C11, amended.  The live set is keyed by identifier, so an identifier is *)
(* in it at most once; an identifier an Edit removed is not in the live    *)
(* set for as long as no later Edit lists it in files_to_add (an Edit that *)
(* adds it again brings it back); and every live identifier was added by   *)
(* an Edit.                                                                *)
(***************************************************************************)
C11_RemovedStaysOutUntilAdded ==
    \A c \in AllCheckpoints :
        LET edits == EditsOf(c)
            live  == c.checkpoint.version.files
        IN  /\ \A p \in edits :
                   \A f \in ActionAt(p).files_to_remove :
                       (\A q \in edits : Before(p, q) => f \notin ActionAt(q).files_to_add)
                           => f \notin live
            /\ \A f \in live : \E p \in edits : f \in ActionAt(p).files_to_add
            /\ live \subseteq FileIds

\* a checkpoint that folded the removal of f1 and the adding of f2: f2 is
\* live and f1 is not
C11_Witness ==
    /\ last_checkpoint.some
    /\ last_checkpoint.checkpoint.version.files = {"f2"}
    /\ \E p \in EditsOf(last_checkpoint) : "f1" \in ActionAt(p).files_to_remove

(***************************************************************************)
(* C12.  A failed checkpoint write deletes nothing.  The step in which     *)
(* save_checkpoint fails returns the error and leaves every log object,    *)
(* every checkpoint object and last_checkpoint() as they were; and a step  *)
(* of do_checkpoint removes log objects only after save_checkpoint has     *)
(* succeeded, the checkpoint of the call being the latest published one.   *)
(***************************************************************************)
C12_SaveFailureDeletesNothing ==
    [][ /\ (ck.pc = "save" /\ ck'.pc = "idle") =>
               /\ ck'.ret = "err"
               /\ logs' = logs
               /\ checkpoints' = checkpoints
               /\ last_checkpoint' = last_checkpoint
        /\ (ck' # ck /\ ck'.ret = "err") =>
               (ck.pc = "save" /\ logs' = logs /\ last_checkpoint' = last_checkpoint)
        /\ (DOMAIN logs \ DOMAIN logs' # {}) =>
               /\ ck.pc = "delete"
               /\ last_checkpoint = BuildCheckpoint(ck)
               /\ ck.last_version \in DOMAIN checkpoints ]_vars

\* save_checkpoint has failed in a call that had folded log objects, a
\* checkpoint published before is still the latest, the log objects are there
C12_Witness ==
    /\ ck.pc = "idle" /\ ck.ret = "err"
    /\ last_checkpoint.some
    /\ last_checkpoint.last_version < ck.start_version
    /\ ck.start_version \in DOMAIN logs
    /\ ck.start_version <= flushed_manifest_version

(***************************************************************************)
(* C13.  A Remove fails the checkpoint.  When an action list the scan      *)
(* yields holds an action that is not Change, Edit or Protocol, the call   *)
(* returns ManifestCheckpoint and leaves the log objects, the checkpoint   *)
(* objects and last_checkpoint() as they were, also when action lists      *)
(* before it in the range were applied to the builder; and the call        *)
(* returns that error in no other case.                                    *)
(***************************************************************************)
\* the versions of [start, end) whose log object holds a Remove
RemovesIn(start, end) == {v \in ScanVersions(start, end) : HasRemove(logs[v])}

C13_RemoveFailsCheckpoint ==
    [][ /\ (/\ ck.pc = "scan" /\ ck' # ck
            /\ RemovesIn(ck.start_version, ck.end_version) # {}) =>
               /\ ck'.pc = "idle" /\ ck'.ret = "ManifestCheckpoint"
               /\ logs' = logs
               /\ checkpoints' = checkpoints
               /\ last_checkpoint' = last_checkpoint
        /\ (ck' # ck /\ ck'.ret = "ManifestCheckpoint") =>
               /\ ck.pc = "scan"
               /\ RemovesIn(ck.start_version, ck.end_version) # {} ]_vars

\* the call has failed on a Remove that follows an action list with an Edit
\* in the range it scanned; no checkpoint is published
C13_Witness ==
    /\ ck.pc = "idle" /\ ck.ret = "ManifestCheckpoint"
    /\ ~last_checkpoint.some
    /\ DOMAIN checkpoints = {}
    /\ \E v \in DOMAIN logs : \E w \in DOMAIN logs :
           /\ ck.start_version <= v /\ v < w /\ w <= flushed_manifest_version
           /\ HasRemove(logs[w])
           /\ \E i \in 1..Len(logs[v]) : logs[v][i].kind = "Edit"

(***************************************************************************)
(* C14.  A failed deletion does not fail the checkpoint.  The step that    *)
(* ends the deletion, failed or not, returns the checkpoint and leaves it  *)
(* published as the latest; and when the deletion has failed, a recovery   *)
(* from the latest checkpoint that scans from last_version + 1 yields no   *)
(* log object left behind and ends in the state that applying the          *)
(* committed lists above last_version to the checkpoint gives.             *)
(***************************************************************************)
\* the log objects a failed deletion left at or below the latest checkpoint
LeftBehind == {v \in DOMAIN logs : v <= last_checkpoint.last_version}

C14_DeleteFailureKeepsCheckpoint ==
    /\ [][ (ck.pc = "delete" /\ ck' # ck) =>
               /\ ck'.pc = "idle" /\ ck'.ret = "some"
               /\ last_checkpoint' = last_checkpoint
               /\ last_checkpoint' = BuildCheckpoint(ck)
               /\ checkpoints' = checkpoints ]_vars
    /\ []((ReturnedCheckpoint /\ ck.delete_failed) =>
            /\ last_checkpoint.some
            /\ checkpoints[last_checkpoint.last_version] = last_checkpoint
            /\ ScanVersions(last_checkpoint.last_version + 1, MAX_VERSION)
                   \cap LeftBehind = {}
            /\ Recover(last_checkpoint,
                       Scan(last_checkpoint.last_version + 1, MAX_VERSION))
                 = Recover(last_checkpoint,
                           CommittedEntries(last_checkpoint.last_version + 1, MAX_VERSION)))

\* the deletion has failed and left a log object behind, the checkpoint was
\* returned, and a committed version follows it
C14_Witness ==
    /\ ReturnedCheckpoint /\ ck.delete_failed
    /\ LeftBehind # {}
    /\ last_checkpoint.last_version < LastVersion

(***************************************************************************)
(* C16.  The Protocol action of the first version.  The update that        *)
(* stores version MIN_VERSION stores a Protocol action followed by the     *)
(* submitted list (a single Change is stored as <<Protocol, Change>>); an  *)
(* update at a later version stores one of the submitted lists as it is,   *)
(* with no Protocol action put before it.                                  *)
(***************************************************************************)
C16_ProtocolAtFirstVersion ==
    [][ Len(committed') = Len(committed) + 1 =>
          LET stored == logs'[version]
          IN  IF version = MIN_VERSION
              THEN /\ Len(stored) = 2
                   /\ stored[1].kind = "Protocol"
                   /\ stored[2].kind = "Change"
                   /\ Tail(stored) \in InitialActionLists
              ELSE stored \in ActionLists ]_vars

\* version 0 holds <<Protocol, Change>> and version 1 a list of two Edits
C16_Witness ==
    /\ MIN_VERSION \in DOMAIN logs /\ MIN_VERSION + 1 \in DOMAIN logs
    /\ Len(logs[MIN_VERSION]) = 2
    /\ logs[MIN_VERSION][1].kind = "Protocol"
    /\ logs[MIN_VERSION + 1] = <<Edit(1, {"f1"}, {}), Edit(2, {"f2"}, {"f1"})>>

(***************************************************************************)
(* What the properties of the table speak of.                              *)
(***************************************************************************)
\* the versions of the table manifest that hold a Change
TableChangeVersions ==
    {v \in DOMAIN table_logs :
        \E i \in 1..Len(table_logs[v]) : table_logs[v][i].kind = "Change"}

\* the table info of the Change stored at version v
ChangedInfo(v) ==
    LET i == CHOOSE i \in 1..Len(table_logs[v]) : table_logs[v][i].kind = "Change"
    IN  table_logs[v][i].table_info

\* the highest version of a set of versions
Highest(S) == CHOOSE v \in S : \A w \in S : w <= v

\* the tasks inside alter
Altering == {p \in Procs : alter[p].pc # "idle"}

\* task p returns from alter in this step
AlterReturns(p) == alter[p].pc # "idle" /\ alter'[p].pc = "idle" /\ alter'[p].ret # "not_called"

(***************************************************************************)
(* C15.  A failed update does not advance the version counter.  The step   *)
(* in which the update of alter or of create fails returns                 *)
(* UpdateTableManifest and leaves the version counter and the log objects  *)
(* of the table manifest as they were; a step that stores an action list   *)
(* stores it under the counter's version and moves the counter by one; so  *)
(* the committed versions are MIN_VERSION up to the counter, with no gap:  *)
(* the update that succeeds next gets the version the failed one would     *)
(* have had.                                                               *)
(***************************************************************************)
C15_FailedUpdateKeepsVersion ==
    /\ [](DOMAIN table_logs = MIN_VERSION..(table_manifest_version - 1))
    /\ [][ /\ \A p \in Procs :
                 (AlterReturns(p) /\ alter'[p].ret = "UpdateTableManifest") =>
                     /\ table_manifest_version' = table_manifest_version
                     /\ table_logs' = table_logs
                     /\ alter'[p].manifest_version = table_manifest_version
           /\ (create_ret' = "UpdateTableManifest" /\ ~table_info.some) =>
                 /\ table_manifest_version' = table_manifest_version
                 /\ table_logs' = table_logs
           /\ table_logs' # table_logs =>
                 /\ DOMAIN table_logs' = DOMAIN table_logs \cup {table_manifest_version}
                 /\ table_manifest_version \notin DOMAIN table_logs
                 /\ table_manifest_version' = table_manifest_version + 1 ]_vars

\* the update of one task has failed at a version, and the update of the
\* other task has then been given that version
C15_Witness ==
    \E p \in Procs : \E q \in Procs :
        /\ alter[p].ret = "UpdateTableManifest"
        /\ alter[q].pc = "swap"
        /\ alter[q].manifest_version = alter[p].manifest_version
        /\ alter[q].manifest_version = MIN_VERSION + 1

(***************************************************************************)
(* C18.  Alters of one table do not overlap.  At most one task is inside   *)
(* alter, the one that holds the alter lock, and the table info it read is *)
(* the one published; the step that swaps the new info in makes the table  *)
(* version the published version + 1, the new info being built from the    *)
(* published one; the Change stored at the n-th version after that of      *)
(* create holds the table version initial + n, and the published table     *)
(* info is that of the highest Change, but for the moment between the      *)
(* update and the swap.                                                    *)
(***************************************************************************)
C18_AltersDoNotOverlap ==
    /\ [](/\ Cardinality(Altering) <= 1
          /\ \A p \in Procs : (p \in Altering) <=> (alter_lock = p)
          /\ \A p \in Altering :
                 /\ alter[p].table_info = table_info
                 /\ alter[p].new_info.version = table_info.version + 1
          /\ \A v \in DOMAIN table_logs :
                 /\ v \in TableChangeVersions
                 /\ ChangedInfo(v).version = InitialTableInfo.version + (v - MIN_VERSION)
          /\ table_info.some =>
                 /\ TableChangeVersions # {}
                 /\ IF \E p \in Procs : alter[p].pc = "swap"
                    THEN table_info = ChangedInfo(Highest(TableChangeVersions) - 1)
                    ELSE table_info = ChangedInfo(Highest(TableChangeVersions)))
    /\ [][ \A p \in Procs :
             (AlterReturns(p) /\ alter'[p].ret = "ok") =>
                 /\ table_info'.version = table_info.version + 1
                 /\ table_info' = NewInfo(table_info, alter[p].kind)
                 /\ table_info' = ChangedInfo(Highest(TableChangeVersions)) ]_vars

\* both tasks have altered the table, one after the other: two alters, the
\* table version is the initial one + 2, three Changes in the manifest
C18_Witness ==
    /\ \A p \in Procs : alter[p].ret = "ok" /\ alter[p].pc = "idle"
    /\ table_info.version = InitialTableInfo.version + 2
    /\ Cardinality(TableChangeVersions) = 3
    /\ alter["a1"].manifest_version # alter["a2"].manifest_version

(***************************************************************************)
(* C19.  The table info changes by one swap after the update.  A step in   *)
(* which alter returns an error leaves the table info (the one the call    *)
(* read), the regions and the table manifest as they were, and the call    *)
(* alters no region afterwards; the table info changes only to the new     *)
(* info of a call whose update has succeeded; a region changes only in a   *)
(* step of the call that is in its loop over the regions; and the table    *)
(* info a reader loads is always one that a Change of the manifest holds,  *)
(* whole.                                                                  *)
(***************************************************************************)
AlterErrors == {"TableOperation", "UpdateTableManifest"}

C19_SwapAfterUpdate ==
    /\ [](table_info.some =>
            \E v \in TableChangeVersions : ChangedInfo(v) = table_info)
    /\ [][ /\ \A p \in Procs :
                 (alter'[p] # alter[p] /\ alter'[p].ret \in AlterErrors) =>
                     /\ table_info' = table_info
                     /\ region_meta' = region_meta
                     /\ table_logs' = table_logs
                     /\ alter'[p].pc = "idle" /\ alter'[p].todo = {}
                     /\ alter_lock' = "free"
           /\ (table_info.some /\ table_info' # table_info) =>
                 \E p \in Procs :
                     /\ alter[p].pc = "swap"
                     /\ table_info' = alter[p].new_info
                     /\ table_info' = ChangedInfo(Highest(TableChangeVersions))
           /\ region_meta' # region_meta =>
                 \E p \in Procs : \E r \in alter[p].todo :
                     /\ alter[p].pc = "regions"
                     /\ \A o \in Regions \ {r} : region_meta'[o] = region_meta[o] ]_vars

\* an alter has failed after it had altered one region of two, another has
\* failed in its update: the table info is the initial one
C19_Witness ==
    /\ table_info = InitialTableInfo
    /\ \E p \in Procs : \E q \in Procs :
           /\ alter[p].pc = "idle" /\ alter[p].ret = "TableOperation"
           /\ alter[q].pc = "idle" /\ alter[q].ret = "UpdateTableManifest"
    /\ \E r \in Regions : \E o \in Regions :
           region_meta[r].version > region_meta[o].version

(***************************************************************************)
(* C20.  What recover_table_info returns.  Over a manifest with a Change   *)
(* it returns the table info of the Change with the highest version, which *)
(* after create and k alters that succeeded has the table version initial  *)
(* + k and is the table info that was published when no alter was between  *)
(* its update and its swap, and it sets the next version of the manifest   *)
(* to the last scanned version + 1; over a manifest with no Change it      *)
(* returns None and leaves the next version as it was.                     *)
(***************************************************************************)
C20_RecoverLastChange ==
    [][ recover_table_info =>
          IF TableChangeVersions = {}
          THEN /\ ~recovered'.some
               /\ table_manifest_version' = table_manifest_version
               /\ table_logs' = table_logs
          ELSE /\ recovered' = ChangedInfo(Highest(TableChangeVersions))
               /\ recovered'.version = InitialTableInfo.version
                                          + Cardinality(TableChangeVersions) - 1
               /\ (\A p \in Procs : alter[p].pc # "swap") => recovered' = table_info
               /\ table_manifest_version' = Highest(DOMAIN table_logs) + 1
               /\ table_logs' = table_logs ]_vars

\* recovered after create and two alters: the info of the second alter, the
\* next version of the manifest is 3
C20_Witness ==
    /\ recovered.some
    /\ recovered.version = InitialTableInfo.version + 2
    /\ recovered = ChangedInfo(MIN_VERSION + 2)
    /\ recovered # InitialTableInfo
    /\ table_manifest_version = MIN_VERSION + 3
    /\ \A p \in Procs : alter[p] = NotAltering

(***************************************************************************)
(* C17.  The GC purges the old checkpoints and keeps the latest.  With a   *)
(* GC duration configured: the latest checkpoint is always there as a      *)
(* checkpoint object, so last_checkpoint() keeps returning it; and every   *)
(* checkpoint object with a last_version smaller than that of the latest   *)
(* checkpoint is purged in the end: whenever such objects exist, a moment  *)
(* comes at which none is left (one purged stays purged, its version being *)
(* below the latest checkpoint for good).                                  *)
(***************************************************************************)
LatestCheckpointKept ==
    last_checkpoint.some =>
        /\ last_checkpoint.last_version \in DOMAIN checkpoints
        /\ checkpoints[last_checkpoint.last_version] = last_checkpoint

C17_GcPurgesOldCheckpoints ==
    /\ []LatestCheckpointKept
    /\ (OldCheckpoints # {}) ~> (OldCheckpoints = {})

\* three checkpoints were published, one per version; the two old ones are
\* purged and the latest is the one checkpoint object left
C17_Witness ==
    /\ last_checkpoint.some
    /\ last_checkpoint.last_version = MIN_VERSION + 2
    /\ last_checkpoint.compacted_actions = 1
    /\ DOMAIN checkpoints = {MIN_VERSION + 2}
    /\ DOMAIN logs = {}

(***************************************************************************)
(* C27.  No committed action list is lost.  Whatever the interleaving of   *)
(* update, set_flushed_manifest_version and the steps of do_checkpoint:    *)
(* every committed version is at or below the last_version of the latest   *)
(* published checkpoint, or its log object is still in the store; and a    *)
(* step that removes log objects removes only versions at or below the     *)
(* last_version of the checkpoint the call has just saved, which is the    *)
(* latest published one.                                                   *)
(***************************************************************************)
CoveredByCheckpoint(v) ==
    last_checkpoint.some /\ v <= last_checkpoint.last_version

C27_NoCommittedListLost ==
    /\ [](\A v \in CommittedVersions : CoveredByCheckpoint(v) \/ v \in DOMAIN logs)
    /\ [][\A v \in DOMAIN logs \ DOMAIN logs' :
              /\ ck.pc = "delete"
              /\ v <= ck.last_version
              /\ CoveredByCheckpoint(v)
              /\ last_checkpoint.last_version = ck.last_version]_vars

\* the call has returned its checkpoint and deleted what it folded; the
\* lists committed above the checkpoint, which the flushed manifest version
\* would already allow to fold, are the log objects left
C27_Witness ==
    /\ ck.ret = "some"
    /\ ~ck.delete_failed
    /\ last_checkpoint.some
    /\ flushed_manifest_version > last_checkpoint.last_version
    /\ DOMAIN logs # {}
    /\ \A v \in CommittedVersions :
           v \in DOMAIN logs <=> v > last_checkpoint.last_version

(***************************************************************************)
(* C28.  A retried alter applies its operation exactly once to every       *)
(* region.  When alter_regions has gone through all the regions of a call  *)
(* (the call is about to update the manifest or has done so), every region *)
(* has the call's operation as the last one applied to it, and applied     *)
(* once: not twice in a row, which no sequence of alters that succeeded    *)
(* produces (a second AddColumns or DropColumns of the same column is      *)
(* refused by info_and_op_for_alter).  This is claimed whatever alters     *)
(* the table has seen before, RenameTable included.                        *)
(***************************************************************************)
\* how many times in a row op was applied last
RECURSIVE TrailingRun(_, _)
TrailingRun(applied, op) ==
    IF applied = <<>> \/ applied[Len(applied)] # op THEN 0
    ELSE 1 + TrailingRun(SubSeq(applied, 1, Len(applied) - 1), op)

RegionsDone(p) ==
    /\ alter[p].alter_op.some
    /\ \/ alter[p].pc = "swap"
       \/ alter[p].pc = "regions" /\ alter[p].todo = {}

\* the call of q is a retry: another task's call of the same request failed
\* on the table as q's call found it (no alter has succeeded in between)
IsRetry(q) ==
    \E p \in Procs \ {q} :
        /\ alter[p].pc = "idle"
        /\ alter[p].ret \in {"TableOperation", "UpdateTableManifest"}
        /\ alter[p].table_info.some
        /\ alter[p].kind = alter[q].kind
        /\ alter[p].table_info = alter[q].table_info

C28_RetryAppliesOnce ==
    \A q \in Procs :
        (RegionsDone(q) /\ IsRetry(q)) =>
            \A r \in Regions : TrailingRun(region_meta[r].applied, alter[q].alter_op) = 1

(***************************************************************************)
(* C21.  The string-map encoding of TableOptions round-trips.  Whatever    *)
(* the TableOptions value, its write_buffer_size, ttl,                     *)
(* compaction_time_window and extra_options: parsing the map made of it    *)
(* succeeds and yields a value equal to it.                                *)
(***************************************************************************)
C21_RoundTrip ==
    serialized.done => (serialized.ok /\ serialized.options = options)

(***************************************************************************)
(* The selectors of an expression in the order they are planned, and the   *)
(* table scans of a plan in the same order: the left input of a join       *)
(* before the right one.                                                   *)
(***************************************************************************)
RECURSIVE SelectorsOf(_)
SelectorsOf(expr) ==
    IF expr.type = "VectorSelector" THEN <<[selector |-> expr, range |-> 0]>>
    ELSE IF expr.type = "MatrixSelector"
    THEN <<[selector |-> expr.vector_selector, range |-> expr.range]>>
    ELSE IF expr.type = "NumberLiteral" THEN <<>>
    ELSE IF expr.type = "Binary" THEN SelectorsOf(expr.lhs) \o SelectorsOf(expr.rhs)
    ELSE IF expr.type = "Call"
    THEN IF create_function_args(expr.args).has_input
         THEN SelectorsOf(create_function_args(expr.args).input) ELSE <<>>
    ELSE SelectorsOf(expr.expr)

RECURSIVE ScansOf(_)
ScansOf(plan) ==
    IF plan.node = "TableScan" THEN <<plan>>
    ELSE IF plan.node = "EmptyMetric" THEN <<>>
    ELSE IF plan.node = "Join" THEN ScansOf(plan.left) \o ScansOf(plan.right)
    ELSE ScansOf(plan.input)

\* the matchers of a selector that match labels
LabelMatchersOf(selector) ==
    SelectIn(selector.matchers,
             {m \in Range(selector.matchers) :
                 /\ ~(m.name = METRIC_NAME /\ m.op = "Equal")
                 /\ m.name # FIELD_COLUMN_MATCHER})

\* the filters the scan of a selector is to carry: the time index within
\* the window moved by the selector's offset and widened by the lookback
\* and the selector's range, and the label matchers
PushdownOf(s, sel, time_index) ==
    {BinaryExpr(Column(<<>>, time_index), ">=",
                TimestampMillisecond(s.start - offset_duration(sel.selector.offset)
                                     - s.lookback_delta - sel.range)),
     BinaryExpr(Column(<<>>, time_index), "<=",
                TimestampMillisecond(s.end - offset_duration(sel.selector.offset)
                                     + s.lookback_delta))}
    \cup Range(matchers_to_expr(LabelMatchersOf(sel.selector)))

\* C22: in every plan of a statement, the table scan of each selector, at
\* any position of the expression, carries the time index not below
\* start - offset - lookback - range and not above end - offset + lookback,
\* with the selector's own offset and range (0 for a VectorSelector), and
\* every label matcher of the selector.
C22_ScanOfEachSelector ==
    \A i \in 1..Len(plans) :
        plans[i].ok =>
            LET selectors == SelectorsOf(stmt.expr)
                scans == ScansOf(plans[i].plan)
            IN  /\ Len(scans) = Len(selectors)
                /\ \A k \in 1..Len(selectors) :
                       PushdownOf(stmt, selectors[k],
                                  Tables[scans[k].table_name].time_index)
                           \subseteq Range(scans[k].filters)

(***************************************************************************)
(* The field columns a plan reads of each of its scans: those of the       *)
(* projection right above the scan, all the fields of the table when       *)
(* there is no projection.                                                 *)
(***************************************************************************)
\* the nodes right above the table scans of a plan, in the order of ScansOf
RECURSIVE ScanParentsOf(_)
ScanParentsOf(plan) ==
    IF plan.node \in {"TableScan", "EmptyMetric"} THEN <<>>
    ELSE IF plan.node = "Join"
    THEN ScanParentsOf(plan.left) \o ScanParentsOf(plan.right)
    ELSE IF plan.input.node = "TableScan" THEN <<plan>>
    ELSE ScanParentsOf(plan.input)

FieldsScanned(parent) ==
    LET fields == Range(Tables[parent.input.table_name].fields)
    IN  IF parent.node = "Projection"
        THEN {parent.exprs[i].name : i \in 1..Len(parent.exprs)} \cap fields
        ELSE fields

\* the expression a selector of SelectorsOf stands for
ExprOf(sel) ==
    IF sel.range = 0 THEN sel.selector ELSE MatrixSelector(sel.selector, sel.range)

\* the field sets of a selector planned alone, in the window of the statement
FieldsAlone(s, sel) ==
    {Range(alone.ctx.field_columns) :
        alone \in {r \in stmt_to_plan([s EXCEPT !.expr = ExprOf(sel)]) : r.ok}}

\* C29: in every plan of a statement, the field columns read for a selector
\* that can be planned alone are those it yields when planned alone: they
\* depend on its own __field__ matchers and on the field columns of its
\* table, and not on the matchers of the selectors planned before it.
C29_FieldMatchersOfOwnSelector ==
    \A i \in 1..Len(plans) :
        plans[i].ok =>
            LET selectors == SelectorsOf(stmt.expr)
                parents == ScanParentsOf(plans[i].plan)
            IN  /\ Len(parents) = Len(selectors)
                /\ \A k \in 1..Len(selectors) :
                       FieldsAlone(stmt, selectors[k]) # {} =>
                           FieldsScanned(parents[k]) \in FieldsAlone(stmt, selectors[k])

(***************************************************************************)
(* The field set the __field__ matchers of a selector stand for, from the  *)
(* matchers of the selector and the field columns F of its table.          *)
(***************************************************************************)
FieldMatchersOf(sel) ==
    {m \in Range(sel.selector.matchers) : m.name = FIELD_COLUMN_MATCHER}

\* P: the columns named by equality matchers and matched by regex matchers
OptedIn(sel, F) ==
    {m.value : m \in {m \in FieldMatchersOf(sel) : m.op = "Equal"}}
    \cup {f \in F : \E m \in FieldMatchersOf(sel) : m.op = "Re" /\ IsMatch(m.value, f)}

\* N: the columns named by not-equal matchers and matched by negated regex
\* matchers
OptedOut(sel, F) ==
    {m.value : m \in {m \in FieldMatchersOf(sel) : m.op = "NotEqual"}}
    \cup {f \in F : \E m \in FieldMatchersOf(sel) : m.op = "NotRe" /\ IsMatch(m.value, f)}

FieldSetOf(sel, F) ==
    (IF OptedIn(sel, F) # {} THEN OptedIn(sel, F) ELSE F) \ OptedOut(sel, F)

\* the selector names its table, and an equality or not-equal __field__
\* matcher of it names a column that is not a field column of the table
NamesAbsentField(sel) ==
    \E n \in Range(sel.selector.matchers) :
        /\ n.name = METRIC_NAME /\ n.op = "Equal" /\ n.value \in DOMAIN Tables
        /\ \E m \in FieldMatchersOf(sel) :
              /\ m.op \in {"Equal", "NotEqual"}
              /\ m.value \notin Range(Tables[n.value].fields)

\* C23: a statement with a selector whose equality or not-equal __field__
\* matcher names a column that is not a field column of the table is not
\* planned; in every plan, the field columns read for a selector with
\* __field__ matchers are (P if P is not empty, else F) minus N, and the
\* tag columns and the time index are kept beside them.
C23_FieldSetOfMatchers ==
    \A i \in 1..Len(plans) :
        LET selectors == SelectorsOf(stmt.expr)
            parents == ScanParentsOf(plans[i].plan)
        IN  /\ (\E k \in 1..Len(selectors) : NamesAbsentField(selectors[k]))
                   => ~plans[i].ok
            /\ plans[i].ok =>
                   \A k \in 1..Len(selectors) :
                       FieldMatchersOf(selectors[k]) # {} =>
                           LET table == Tables[parents[k].input.table_name]
                           IN  /\ parents[k].node = "Projection"
                               /\ FieldsScanned(parents[k])
                                      = FieldSetOf(selectors[k], Range(table.fields))
                               /\ Range(table.tags) \cup {table.time_index}
                                      \subseteq {parents[k].exprs[j].name :
                                                    j \in 1..Len(parents[k].exprs)}

(***************************************************************************)
(* A binary expression between a vector and a literal.                     *)
(***************************************************************************)
ComparisonOps == {"==", "!=", ">", "<", ">=", "<="}

IsLiteral(expr) == try_build_literal_expr(expr).some

VectorAndLiteral(expr) ==
    /\ expr.type = "Binary"
    /\ IsLiteral(expr.lhs) # IsLiteral(expr.rhs)

VectorSideOf(expr) == IF IsLiteral(expr.lhs) THEN expr.rhs ELSE expr.lhs

\* the plans of the vector side planned as a statement of its own
PlansOfVectorSide(s) ==
    {r.plan : r \in {r \in stmt_to_plan([s EXCEPT !.expr = VectorSideOf(s.expr)]) : r.ok}}

\* a comparison of a column with a literal, on either side
ComparesColumn(e) ==
    /\ e.expr = "BinaryExpr"
    /\ e.op \in {"=", "!=", ">", "<", ">=", "<="}
    /\ \/ e.left.expr = "Column" /\ e.right.expr = "Literal"
       \/ e.left.expr = "Literal" /\ e.right.expr = "Column"

\* the expressions of a projection that are not columns handed on
FieldExprsOf(projection) ==
    {projection.exprs[j].inner :
        j \in {j \in 1..Len(projection.exprs) : projection.exprs[j].expr = "Alias"}}

\* C24: in every plan of a binary expression between a vector and a literal
\* whose operator is a comparison, without bool the top node is a Filter
\* that compares the field column, right over the plan of the vector (no
\* Projection is added); with bool the top node is a Projection, right over
\* the plan of the vector (no Filter is added), whose field expressions are
\* the comparison cast to Float64; for any other operator the top node is a
\* Projection.
C24_FilterOrProjection ==
    VectorAndLiteral(stmt.expr) =>
        \A i \in 1..Len(plans) :
            plans[i].ok =>
                LET top == plans[i].plan
                IN  IF stmt.expr.op \in ComparisonOps /\ ~stmt.expr.return_bool
                    THEN /\ top.node = "Filter"
                         /\ ComparesColumn(top.predicate)
                         /\ top.input \in PlansOfVectorSide(stmt)
                    ELSE /\ top.node = "Projection"
                         /\ top.input \in PlansOfVectorSide(stmt)
                         /\ FieldExprsOf(top) # {}
                         /\ stmt.expr.op \in ComparisonOps =>
                               \A e \in FieldExprsOf(top) :
                                   /\ e.expr = "Cast"
                                   /\ e.data_type = "Float64"
                                   /\ ComparesColumn(e.inner)

\* a comparison of a vector with a literal is planned as a filter, and the
\* same comparison with bool as a projection
C24_Witness ==
    /\ VectorAndLiteral(stmt.expr)
    /\ stmt.expr.op \in ComparisonOps
    /\ Len(plans) = MaxRuns
    /\ plans[1].ok
    /\ plans[1].plan.node = IF stmt.expr.return_bool THEN "Projection" ELSE "Filter"
    /\ \E planned \in stmt_to_plan([stmt EXCEPT !.expr.return_bool = ~stmt.expr.return_bool]) :
           /\ planned.ok
           /\ planned.plan.node # plans[1].plan.node

(***************************************************************************)
(* An aggregate over a planned input: the columns grouped by, the          *)
(* aggregates and the sort.                                                *)
(***************************************************************************)
\* the outcomes of the input of the aggregate planned as a statement of its own
InputsOfAggregate(s) ==
    {r \in stmt_to_plan([s EXCEPT !.expr = s.expr.expr]) : r.ok}

\* the labels grouped by, of the modifier and the input: with by(L) the
\* labels of L the input schema has, with without(L) the columns of the
\* input but L, the time index and the field columns
LabelsGroupedBy(modifier, input) ==
    LET columns == {Schema(input.plan)[j].name : j \in 1..Len(Schema(input.plan))}
    IN  IF modifier.kind = "Include" THEN Range(modifier.labels) \cap columns
        ELSE IF modifier.kind = "Exclude"
        THEN columns \ (Range(modifier.labels)
                        \cup {input.ctx.time_index_column.value}
                        \cup Range(input.ctx.field_columns))
        ELSE {}

\* C25: in every plan of an aggregate, the top node is a Sort over an
\* Aggregate over the plan of the input; the Aggregate groups by the labels
\* of by(L) that the input schema has, or by the input columns but the
\* labels of without(L), the time index and the field columns, followed by
\* the time index, and has one aggregate for each field column of the
\* input; the Sort is ascending on the columns grouped by; and the time
\* index of the context is cleared afterwards.
C25_AggregateGroupsAndSorts ==
    stmt.expr.type = "Aggregate" =>
        \A i \in 1..Len(plans) :
            plans[i].ok =>
                \E input \in InputsOfAggregate(stmt) :
                    LET top == plans[i].plan
                        group == top.input.group_expr
                        aggr == top.input.aggr_expr
                        fields == input.ctx.field_columns
                    IN  /\ top.node = "Sort"
                        /\ top.input.node = "Aggregate"
                        /\ top.input.input = input.plan
                        /\ \A j \in 1..Len(group) : group[j].expr = "Column"
                        /\ {group[j].name : j \in 1..(Len(group) - 1)}
                               = LabelsGroupedBy(stmt.expr.modifier, input)
                        /\ Len(group) = 1 + Cardinality(LabelsGroupedBy(stmt.expr.modifier,
                                                                        input))
                        /\ group[Len(group)].name = input.ctx.time_index_column.value
                        /\ Len(aggr) = Len(fields)
                        /\ \A j \in 1..Len(aggr) :
                               /\ aggr[j].expr = "AggregateFunction"
                               /\ Len(aggr[j].args) = 1
                               /\ aggr[j].args[1].expr = "Column"
                               /\ aggr[j].args[1].name = fields[j]
                        /\ Len(top.exprs) = Len(group)
                        /\ \A j \in 1..Len(group) :
                               /\ top.exprs[j].expr = "Sort"
                               /\ top.exprs[j].asc
                               /\ top.exprs[j].inner.name = group[j].name
                        /\ ~plans[i].ctx.time_index_column.some

\* an aggregate without(L) is planned over an input with a tag column that
\* is not in L
C25_Witness ==
    /\ stmt.expr.type = "Aggregate"
    /\ stmt.expr.modifier.kind = "Exclude"
    /\ Len(plans) = MaxRuns
    /\ plans[1].ok
    /\ Len(plans[1].plan.input.group_expr) > 1
    /\ Len(plans[1].plan.input.aggr_expr) > 1

\* C26: planning is deterministic: the runs of stmt_to_plan on one
\* statement (the same AST, the same evaluation window, the same tables)
\* all fail, or all yield the same plan, the order of the filters pushed
\* down and of the field columns projected included.
C26_SamePlanEveryRun ==
    \A i, j \in 1..Len(plans) :
        /\ plans[i].ok = plans[j].ok
        /\ plans[i].plan = plans[j].plan

\* the column names the context holds
ContextColumns(ctx) ==
    Range(ctx.tag_columns) \cup Range(ctx.field_columns)
    \cup (IF ctx.time_index_column.some THEN {ctx.time_index_column.value} ELSE {})

\* C30: after an expression is translated, every column name the context
\* holds (the tag columns, the field columns, the time index when it is
\* set) names a column of the schema of the plan built, an aggregate whose
\* by(...) names labels the input lacks included.
C30_ContextColumnsInSchema ==
    \A i \in 1..Len(plans) :
        plans[i].ok =>
            ContextColumns(plans[i].ctx)
                \subseteq {Schema(plans[i].plan)[j].name :
                              j \in 1..Len(Schema(plans[i].plan))}

====
